---- MODULE Spec2Model ----
(***************************************************************************)
(* Verification model of the routing-game OSM toolkit:                     *)
(*   - trim_and_extract      (two-pass extractor)                          *)
(*   - connect_components    (union-find components, grid index, bridger)  *)
(*   - extract_categorized_places (per-(category,region) reservoirs)       *)
(*   - routing_server        (address sample, annulus, HTTP handlers,      *)
(*                            route handlers, engine startup)              *)
(* Each subsystem has its own specification over one shared variable list; *)
(* the variables of the other subsystems stay at their idle value.         *)
(***************************************************************************)
EXTENDS Integers, Sequences, FiniteSets, TLC

VARIABLES
    \* ---- trim_and_extract.cpp ----
    t_input,          \* the input PBF: sequence of items in file order
    t_pc,             \* "idle" | "pass1" | "pass2" | "done"
    t_pos,            \* index of the next item the reader hands out
    m_routable_only,  \* Pass1Handler/Pass2Handler::m_routable_only
    m_writer,         \* Pass2Handler::m_writer is non-null (extract_osm)
    m_nodes_needed,   \* Pass1Handler::m_nodes_needed
    out_nodes,        \* node records written to the output PBF, in order
    out_ways,         \* way records written to the output PBF, in order
    \* ---- connect_components.cpp ----
    c_input,            \* the input PBF: sequence of items in file order
    c_pc,               \* position of main()
    c_pos,              \* index of the next item / component to handle
    node_index_,        \* RoutableGraphExtractor::node_index_ (id -> location)
    routable_way_ids_,  \* RoutableGraphExtractor::routable_way_ids_
    routable_node_ids_, \* RoutableGraphExtractor::routable_node_ids_ (insertion order)
    union_find_,        \* RoutableGraphExtractor::union_find_ (parent_, rank_)
    components,         \* main(): std::vector<ComponentInfo>
    primary_idx,        \* main(): index of the primary component (1-based)
    synthetic_ways,     \* main(): std::vector<SyntheticWay>
    \* ---- DiskSpatialIndex.h ----
    cells_with_nodes_,  \* DiskSpatialIndex::cells_with_nodes_
    cell_files,         \* contents of temp_dir/cell_<lat>_<lon>.bin per cell
    q_query,            \* the last find_nearest call (arguments)
    q_result,           \* and what it returned
    \* ---- extract_categorized_places.cpp ----
    p_input,            \* the input PBF: sequence of items in file order
    p_pc,               \* position of main()
    p_pos,              \* index of the next item the reader hands out
    p_run,              \* which run of the extractor on p_input this is
    rng_,               \* SinglePassHandler::rng_ (seed and draws so far)
    p_node_index,       \* SinglePassHandler::node_index_
    p_way_index,        \* SinglePassHandler::way_index_
    node_regions_,      \* SinglePassHandler::node_regions_
    way_regions_,       \* SinglePassHandler::way_regions_
    relation_regions_,  \* SinglePassHandler::relation_regions_
    region_codes_,      \* SinglePassHandler::region_codes_
    node_queues_,       \* SinglePassHandler::node_queues_
    way_queues_,        \* SinglePassHandler::way_queues_
    relation_queues_,   \* SinglePassHandler::relation_queues_
    csv_rows,           \* rows written to the places CSV
    first_csv_rows,     \* the rows the previous run on the same input wrote
    \* ---- routing_server: RoutingEngine address queries ----
    addresses_,         \* RoutingEngine::addresses_
    addr_index_,        \* RoutingEngine::addr_index_
    s_query,            \* number, seed and page_size of the sample requested
    s_pages,            \* results of getAddressSample for page_num 0, 1, ...
    u_query,            \* the last annulus query
    u_result,           \* what getUniformRandomAddressInAnnulus returned
    \* ---- routing_server: concurrently handled HTTP requests ----
    h_server,           \* which server runs: "main" (main.cpp) or "engine"
    ch_query,           \* main(): the ContractionHierarchyQuery the handlers share
    h_pc,               \* position of each handler thread
    h_req,              \* the request each thread handles
    h_local,            \* locals of each handler (distance, node_path, arc_path)
    h_resp,             \* the response each thread computed
    h_served,           \* number of requests accepted so far
    \* ---- routing_server: ApiHandlers route requests ----
    r_endpoint,         \* the endpoint of the last request handled
    r_req,              \* its URL parameters
    r_queries,          \* the RoutingResults of the routing queries it ran
    r_resp,             \* the response: HTTP code and JSON body
    \* ---- CategoryMatcher on its own ----
    mc_categories,      \* CategoryMatcher::categories_ of the matcher called
    mc_tags,            \* the tags match_category is called with
    mc_result,          \* what it returned (-2: not called)
    \* ---- trim_and_extract.cpp: the address CSV files ----
    a_pc,               \* position of main()
    a_extract_addresses,\* main(): extract_addresses
    a_temp,             \* the file at temp_csv
    a_final,            \* the file at csv_output_path
    a_read,             \* compress_csv: lines read from the temporary CSV
    a_exit,             \* exit code of main() (-1: still running)
    \* ---- routing_server: RoutingEngine constructor ----
    e_pc,               \* position of the constructor
    ch_file,            \* the file at ch_file_path
    ch_geo_,            \* RoutingEngine::ch_geo_
    ch_dir,             \* the parent directory of ch_file_path exists
    e_events,           \* what this start did, in order
    e_starts,           \* number of starts so far
    \* ---- routing_server: ApiHandlers annulus requests ----
    ua_req,             \* URL parameters of the last annulus request handled
    ua_resp,            \* the response: HTTP code and JSON body
    \* ---- routing_server: RoutingEngine::loadAddressesFromCSV ----
    csv_file,           \* the lines of the address file being loaded
    l_pc,               \* position of loadAddressesFromCSV
    l_pos,              \* number of lines read so far
    lat_vec,            \* loadAddressesFromCSV: lat_vec / lon_vec
    l_loads,            \* number of files loaded so far
    \* ---- connect_components.cpp: ConnectedGraphWriter ----
    cw_out,             \* records written to the connected PBF, in order
    written_node_ids_   \* ConnectedGraphWriter::written_node_ids_

trimVars == <<t_input, t_pc, t_pos, m_routable_only, m_writer,
              m_nodes_needed, out_nodes, out_ways>>

connectVars == <<c_input, c_pc, c_pos, node_index_, routable_way_ids_,
                 routable_node_ids_, union_find_, components, primary_idx,
                 synthetic_ways>>

indexVars == <<cells_with_nodes_, cell_files, q_query, q_result>>

placesVars == <<p_input, p_pc, p_pos, p_run, rng_, p_node_index, p_way_index,
                node_regions_, way_regions_, relation_regions_, region_codes_,
                node_queues_, way_queues_, relation_queues_, csv_rows,
                first_csv_rows>>

addressVars == <<addresses_, addr_index_, s_query, s_pages, u_query, u_result>>

httpVars == <<h_server, ch_query, h_pc, h_req, h_local, h_resp, h_served>>

routeVars == <<r_endpoint, r_req, r_queries, r_resp>>

matchVars == <<mc_categories, mc_tags, mc_result>>

csvVars == <<a_pc, a_extract_addresses, a_temp, a_final, a_read, a_exit>>

engineVars == <<e_pc, ch_file, ch_dir, ch_geo_, e_events, e_starts>>

annulusHttpVars == <<ua_req, ua_resp>>

loadVars == <<csv_file, l_pc, l_pos, lat_vec, l_loads>>

writerVars == <<cw_out, written_node_ids_>>

lateVars == <<annulusHttpVars, loadVars, writerVars>>

extVars == <<routeVars, matchVars, csvVars, engineVars, lateVars>>

vars == <<trimVars, connectVars, indexVars, placesVars, addressVars, httpVars,
          extVars>>

\* What each subsystem leaves alone.
notTrim    == <<connectVars, indexVars, placesVars, addressVars, httpVars,
               extVars>>
notConnect == <<trimVars, q_query, q_result, placesVars, addressVars, httpVars,
               extVars>>
notIndex   == <<trimVars, connectVars, placesVars, addressVars, httpVars,
               extVars>>
notPlaces  == <<trimVars, connectVars, indexVars, addressVars, httpVars,
               extVars>>
notAddress == <<trimVars, connectVars, indexVars, placesVars, httpVars,
               extVars>>
coreVars == <<trimVars, connectVars, indexVars, placesVars, addressVars, httpVars>>
notRoute   == <<coreVars, matchVars, csvVars, engineVars, lateVars>>
notMatch   == <<coreVars, routeVars, csvVars, engineVars, lateVars>>
notCsv     == <<coreVars, routeVars, matchVars, engineVars, lateVars>>
notEngine  == <<coreVars, routeVars, matchVars, csvVars, lateVars>>
earlyVars == <<coreVars, routeVars, matchVars, csvVars, engineVars>>
notAnnulusHttp == <<earlyVars, loadVars, writerVars>>
notLoad == <<trimVars, connectVars, indexVars, placesVars, s_query, s_pages,
             u_query, u_result, httpVars, routeVars, matchVars, csvVars,
             engineVars, annulusHttpVars, writerVars>>
notWriter == <<trimVars, q_query, q_result, placesVars, addressVars, httpVars,
               routeVars, matchVars, csvVars, engineVars, annulusHttpVars,
               loadVars>>
notHttp    == <<trimVars, connectVars, indexVars, placesVars, addressVars,
               extVars>>

(***************************************************************************)
(* Generic helpers                                                         *)
(***************************************************************************)
Range(s) == {s[i] : i \in 1..Len(s)}

SeqsUpTo(S, n) == UNION {[1..k -> S] : k \in 0..n}

NoTags == [highway |-> "", access |-> "", motor_vehicle |-> "",
           vehicle |-> "", route |-> ""]

(***************************************************************************)
(* RoutableWays.h                                                          *)
(***************************************************************************)
ROUTABLE_HIGHWAY_TYPES ==
    {"motorway", "trunk", "primary", "secondary", "tertiary",
     "unclassified", "residential",
     "motorway_link", "trunk_link", "primary_link", "secondary_link",
     "tertiary_link",
     "living_street", "service", "busway",
     "track", "path", "footway", "cycleway", "bridleway",
     "pedestrian", "steps",
     "construction"}

\* An absent tag is the empty string, as in the code's
\* `value ? std::string(value) : ""`.
is_routable_way(tags) ==
    IF tags.highway \in ROUTABLE_HIGHWAY_TYPES
    THEN IF tags.access = "no" \/ tags.access = "private" THEN FALSE
         ELSE IF tags.motor_vehicle = "no" \/ tags.motor_vehicle = "private"
              THEN FALSE
         ELSE IF tags.vehicle = "no" \/ tags.vehicle = "private" THEN FALSE
         ELSE TRUE
    ELSE FALSE

is_ferry_or_highway(tags) ==
    IF tags.route = "ferry" THEN TRUE
    ELSE IF tags.highway # "" THEN TRUE
    ELSE FALSE

(***************************************************************************)
(* RoutingProfile.h                                                        *)
(*                                                                         *)
(* The profile is evaluated on the tag keys the input ways carry.  Every   *)
(* other key it reads (junction, ferry, motorcar, bicycle, cycleway*,      *)
(* crossing, oneway, maxspeed, railway, public_transport) is absent.       *)
(***************************************************************************)
is_osm_way_used_by_cars(tags) ==
    IF tags.route = "ferry" THEN TRUE
    ELSE IF tags.highway = "" THEN FALSE
    ELSE IF tags.motor_vehicle = "no" THEN FALSE
    ELSE IF /\ tags.access # ""
            /\ tags.access \notin {"yes", "permissive", "delivery",
                                   "designated", "destination"}
         THEN FALSE
    ELSE IF tags.highway \in
              {"motorway", "trunk", "primary", "secondary", "tertiary",
               "unclassified", "residential", "service", "motorway_link",
               "trunk_link", "primary_link", "secondary_link",
               "tertiary_link", "motorway_junction", "living_street",
               "track", "ferry"}
         THEN TRUE
    ELSE FALSE

is_osm_way_used_by_bicycles(tags) ==
    IF tags.route = "ferry" THEN TRUE
    ELSE IF tags.highway = "" THEN FALSE
    ELSE IF tags.highway = "proposed" THEN FALSE
    ELSE IF /\ tags.access # ""
            /\ tags.access \notin {"yes", "permissive", "delivery",
                                   "designated", "destination",
                                   "agricultural", "forestry", "public"}
         THEN FALSE
    ELSE IF tags.highway \in
              {"secondary", "tertiary", "unclassified", "residential",
               "service", "secondary_link", "tertiary_link",
               "living_street", "track", "bicycle_road", "primary",
               "primary_link", "path", "footway", "cycleway", "bridleway",
               "pedestrian", "crossing", "escape", "steps", "ferry"}
         THEN TRUE
    ELSE FALSE

is_osm_way_used_by_pedestrians(tags) ==
    IF tags.route = "ferry" THEN TRUE
    ELSE IF tags.highway = "" THEN FALSE
    ELSE IF /\ tags.access # ""
            /\ tags.access \notin {"yes", "permissive", "delivery",
                                   "designated", "destination",
                                   "agricultural", "forestry", "public"}
         THEN FALSE
    ELSE IF tags.highway \in
              {"secondary", "tertiary", "unclassified", "residential",
               "service", "secondary_link", "tertiary_link",
               "living_street", "track", "bicycle_road", "path", "footway",
               "cycleway", "bridleway", "pedestrian", "escape", "steps",
               "crossing", "escalator", "elevator", "platform", "ferry"}
         THEN TRUE
    ELSE FALSE

\* The highway values of the fallback list of is_routable_for_routingkit.
FallbackHighwayTypes ==
    {"motorway", "trunk", "primary", "secondary", "tertiary",
     "unclassified", "residential",
     "motorway_link", "trunk_link", "primary_link", "secondary_link",
     "tertiary_link",
     "living_street", "service", "pedestrian", "track", "bus_guideway",
     "busway", "raceway", "road", "construction", "escape",
     "path", "footway", "cycleway", "bridleway", "steps", "corridor",
     "bus_stop", "crossing", "emergency_access_point", "give_way",
     "mini_roundabout", "motorway_junction", "passing_place", "platform",
     "rest_area", "services", "speed_camera", "stop", "street_lamp",
     "traffic_signals", "turning_circle", "turning_loop",
     "proposed", "planned", "abandoned", "disused", "razed",
     "via_ferrata", "elevator", "escalator"}

is_routable_for_routingkit(tags) ==
    IF is_osm_way_used_by_cars(tags) THEN TRUE
    ELSE IF is_osm_way_used_by_bicycles(tags) THEN TRUE
    ELSE IF is_osm_way_used_by_pedestrians(tags) THEN TRUE
    ELSE IF tags.highway # "" /\ tags.highway \in FallbackHighwayTypes
         THEN TRUE
    ELSE FALSE

(***************************************************************************)
(* trim_and_extract.cpp : two-pass extractor                               *)
(***************************************************************************)
MaxNodeId == 2      \* node ids 1..MaxNodeId may occur in the input
MaxWays == 2        \* at most this many ways in the input
MaxRefs == 2        \* at most this many node refs per way

NodeIds == 1..MaxNodeId

\* The tag sets an input way may carry.
WayTagChoices ==
    { [NoTags EXCEPT !.highway = "residential"],
      [NoTags EXCEPT !.highway = "residential", !.access = "no"],
      [NoTags EXCEPT !.route = "ferry"],
      NoTags }

NodeItem(id, valid, tagged) ==
    [type |-> "node", id |-> id, valid |-> valid, tagged |-> tagged,
     refs |-> <<>>, tags |-> NoTags]

WayItem(id, refs, tags) ==
    [type |-> "way", id |-> id, valid |-> FALSE, tagged |-> TRUE,
     refs |-> refs, tags |-> tags]

\* Nodes of the file in ascending id order: each id is absent, present with
\* a valid location or present with an invalid location.
RECURSIVE NodeSection(_, _)
NodeSection(status, id) ==
    IF id > MaxNodeId THEN <<>>
    ELSE (IF status[id] = "absent" THEN <<>>
          ELSE <<NodeItem(id, status[id] = "valid", TRUE)>>)
         \o NodeSection(status, id + 1)

WaySection(ways) == [i \in 1..Len(ways) |-> WayItem(i, ways[i].refs, ways[i].tags)]

TrimInputs ==
    { NodeSection(status, 1) \o WaySection(ways) :
        status \in [NodeIds -> {"absent", "valid", "invalid"}],
        ways \in SeqsUpTo([refs : SeqsUpTo(NodeIds, MaxRefs) \ {<<>>},
                           tags : WayTagChoices], MaxWays) }

TrimIdle ==
    /\ t_input = <<>>
    /\ t_pc = "idle"
    /\ t_pos = 1
    /\ m_routable_only = FALSE
    /\ m_writer = FALSE
    /\ m_nodes_needed = {}
    /\ out_nodes = <<>>
    /\ out_ways = <<>>

\* main(): state after argument parsing, before reader1 is opened.
TrimInit ==
    /\ t_input \in TrimInputs
    /\ t_pc = "pass1"
    /\ t_pos = 1
    /\ m_routable_only \in BOOLEAN
    /\ m_writer \in BOOLEAN
    /\ m_nodes_needed = {}
    /\ out_nodes = <<>>
    /\ out_ways = <<>>

should_include(tags, routable_only) ==
    IF is_routable_way(tags) THEN TRUE
    ELSE IF ~routable_only THEN is_ferry_or_highway(tags)
    ELSE FALSE

\* Pass1Handler::node - only address extraction, no effect on the PBF state.
Pass1Node ==
    /\ t_pc = "pass1"
    /\ t_pos <= Len(t_input)
    /\ t_input[t_pos].type = "node"
    /\ t_pos' = t_pos + 1
    /\ UNCHANGED <<notTrim, t_input, t_pc, m_routable_only, m_writer, m_nodes_needed,
                   out_nodes, out_ways>>

\* Pass1Handler::way
Pass1Way ==
    /\ t_pc = "pass1"
    /\ t_pos <= Len(t_input)
    /\ t_input[t_pos].type = "way"
    /\ m_nodes_needed' =
         IF should_include(t_input[t_pos].tags, m_routable_only)
         THEN m_nodes_needed \cup Range(t_input[t_pos].refs)
         ELSE m_nodes_needed
    /\ t_pos' = t_pos + 1
    /\ UNCHANGED <<notTrim, t_input, t_pc, m_routable_only, m_writer, out_nodes, out_ways>>

\* main(): reader1 exhausted; Pass 2 starts on the same file.
Pass1End ==
    /\ t_pc = "pass1"
    /\ t_pos > Len(t_input)
    /\ t_pc' = "pass2"
    /\ t_pos' = 1
    /\ UNCHANGED <<notTrim, t_input, m_routable_only, m_writer, m_nodes_needed,
                   out_nodes, out_ways>>

\* Mutant of MinimalNode: the input node is copied with its tags.
MinimalNode_CopyTags(item) == NodeItem(item.id, item.valid, item.tagged)

\* The minimal node the NodeBuilder makes: set_id and set_location only.
MinimalNode(item) == NodeItem(item.id, item.valid, FALSE)

\* Pass2Handler::node
Pass2Node ==
    /\ t_pc = "pass2"
    /\ t_pos <= Len(t_input)
    /\ t_input[t_pos].type = "node"
    /\ out_nodes' =
         IF /\ t_input[t_pos].id \in m_nodes_needed
            /\ t_input[t_pos].valid
            /\ m_writer
         THEN Append(out_nodes, MinimalNode(t_input[t_pos]))
         ELSE out_nodes
    /\ t_pos' = t_pos + 1
    /\ UNCHANGED <<notTrim, t_input, t_pc, m_routable_only, m_writer, m_nodes_needed,
                   out_ways>>

\* Pass2Handler::way (PBF part: the way is written verbatim)
Pass2Way ==
    /\ t_pc = "pass2"
    /\ t_pos <= Len(t_input)
    /\ t_input[t_pos].type = "way"
    /\ out_ways' =
         IF should_include(t_input[t_pos].tags, m_routable_only) /\ m_writer
         THEN Append(out_ways, t_input[t_pos])
         ELSE out_ways
    /\ t_pos' = t_pos + 1
    /\ UNCHANGED <<notTrim, t_input, t_pc, m_routable_only, m_writer, m_nodes_needed,
                   out_nodes>>

\* main(): reader2 exhausted, writer closed.
Pass2End ==
    /\ t_pc = "pass2"
    /\ t_pos > Len(t_input)
    /\ t_pc' = "done"
    /\ UNCHANGED <<notTrim, t_input, t_pos, m_routable_only, m_writer, m_nodes_needed,
                   out_nodes, out_ways>>

TrimNext ==
    \/ Pass1Node
    \/ Pass1Way
    \/ Pass1End
    \/ Pass2Node
    \/ Pass2Way
    \/ Pass2End

(***************************************************************************)
(* Claims about the two-pass extractor                                     *)
(***************************************************************************)
\* Items of the input that Pass 2 has already handled.
Pass2Handled ==
    IF t_pc = "pass2" THEN SubSeq(t_input, 1, t_pos - 1)
    ELSE IF t_pc = "done" THEN t_input
    ELSE <<>>

WrittenNodeIds == {out_nodes[i].id : i \in 1..Len(out_nodes)}

IsNeededValidNode(item) ==
    item.type = "node" /\ item.id \in m_nodes_needed /\ item.valid

RECURSIVE ExpectedNodes(_)
ExpectedNodes(items) ==
    IF items = <<>> THEN <<>>
    ELSE (IF IsNeededValidNode(Head(items))
          THEN <<NodeItem(Head(items).id, TRUE, FALSE)>>
          ELSE <<>>) \o ExpectedNodes(Tail(items))

\* A way that carries one of the denials: access, motor_vehicle or vehicle
\* with the value no or private.
HasAccessDenial(tags) ==
    \/ tags.access \in {"no", "private"}
    \/ tags.motor_vehicle \in {"no", "private"}
    \/ tags.vehicle \in {"no", "private"}

\* The only other path by which the classifiers accept a way of the input:
\* it is a ferry route.
KeptByOtherPath(tags) == tags.route = "ferry"

\* C26: access denials take precedence over the highway value: a way tagged
\* access, motor_vehicle or vehicle = no or private is neither written by
\* the extractor nor accepted by the connectivity profile because of its
\* highway value alone.
C26_DenialsTakePrecedence ==
    /\ \A i \in 1..Len(out_ways) :
         HasAccessDenial(out_ways[i].tags) => KeptByOtherPath(out_ways[i].tags)
    /\ \A i \in 1..Len(Pass2Handled) :
         /\ Pass2Handled[i].type = "way"
         /\ HasAccessDenial(Pass2Handled[i].tags)
         /\ is_routable_for_routingkit(Pass2Handled[i].tags)
         => KeptByOtherPath(Pass2Handled[i].tags)

\* C2: in the trimmed PBF every node id referenced by a written way is
\* itself written as a node (a way with an unwritten node is dropped).
C2_WrittenWaysHaveWrittenNodes ==
    t_pc = "done" =>
        \A i \in 1..Len(out_ways) :
            Range(out_ways[i].refs) \subseteq WrittenNodeIds

\* C3: with the PBF output enabled, Pass 2 writes a node if and only if its
\* id is in the needed-nodes set of Pass 1 and its location is valid, and
\* the written node carries id and location only (no tags).
C3_NodeWrittenIffNeededAndValid ==
    m_writer => out_nodes = ExpectedNodes(Pass2Handled)

\* C3 witness: a finished run that wrote a node and skipped a needed node
\* that has no valid location.
C3_Witness ==
    /\ t_pc = "done"
    /\ m_writer
    /\ out_nodes # <<>>
    /\ \E i \in 1..Len(t_input) :
          /\ t_input[i].type = "node"
          /\ t_input[i].id \in m_nodes_needed
          /\ ~t_input[i].valid

(***************************************************************************)
(* DiskSpatialIndex.h : grid index over cell files                         *)
(*                                                                         *)
(* Coordinates are integers in units of half a grid step (0.005 degree),   *)
(* so grid_cell_size_ = 0.01 degree is CellUnits = 2 units and             *)
(* floor(lat / grid_cell_size_) is lat \div CellUnits (\div rounds down).   *)
(* Distances are metres on the local plane: one unit is UnitM metres.      *)
(***************************************************************************)
CellUnits == 2
UnitM == 556
max_radius_cells == 1000
default_max_radius_m == 10000
InfDistance == 2000000000   \* std::numeric_limits<double>::max()

Abs(x) == IF x < 0 THEN -x ELSE x

Max2(a, b) == IF a > b THEN a ELSE b

\* floor(sqrt(n)) by bisection; lo*lo <= n < hi*hi
RECURSIVE SqrtBetween(_, _, _)
SqrtBetween(n, lo, hi) ==
    IF hi - lo <= 1 THEN lo
    ELSE LET mid == (lo + hi) \div 2
         IN IF mid * mid <= n THEN SqrtBetween(n, mid, hi)
            ELSE SqrtBetween(n, lo, mid)

ISqrt(n) == SqrtBetween(n, 0, 4096)

haversine_m(lat1, lon1, lat2, lon2) ==
    UnitM * ISqrt((lat2 - lat1) * (lat2 - lat1) + (lon2 - lon1) * (lon2 - lon1))

get_grid_cell(lat, lon) == <<lat \div CellUnits, lon \div CellUnits>>

NodeEntry(node_id, lat, lon) == [node_id |-> node_id, lat |-> lat, lon |-> lon]

EmptyIndex == [cells |-> {}, files |-> <<>>]

\* DiskSpatialIndex::insert on an index value [cells, files]
insert(idx, node_id, lat, lon) ==
    LET cell == get_grid_cell(lat, lon)
        old == IF cell \in DOMAIN idx.files THEN idx.files[cell] ELSE <<>>
    IN [cells |-> idx.cells \cup {cell},
        files |-> [c \in DOMAIN idx.files \cup {cell} |->
                     IF c = cell THEN Append(old, NodeEntry(node_id, lat, lon))
                     ELSE idx.files[c]]]

read_cell_nodes(idx, cell) ==
    IF cell \in DOMAIN idx.files THEN idx.files[cell] ELSE <<>>

\* The cells one iteration of the while loop looks at: the square of
\* radius_cells around the query cell, without the inner cells when
\* radius_cells > 1, restricted to the occupied cells.
RingCells(idx, qcell, radius_cells) ==
    { c \in idx.cells :
        LET abs_dlat == Abs(c[1] - qcell[1])
            abs_dlon == Abs(c[2] - qcell[2])
        IN /\ abs_dlat <= radius_cells
           /\ abs_dlon <= radius_cells
           /\ ~(radius_cells > 1 /\ abs_dlat < radius_cells - 1
                                 /\ abs_dlon < radius_cells - 1) }

\* The cells of a ring in the order of the two for loops (dlat, then dlon).
RECURSIVE CellsInLoopOrder(_)
CellsInLoopOrder(cs) ==
    IF cs = {} THEN <<>>
    ELSE LET first == CHOOSE c \in cs :
                        \A d \in cs : c[1] < d[1] \/ (c[1] = d[1] /\ c[2] <= d[2])
         IN <<first>> \o CellsInLoopOrder(cs \ {first})

\* for (const auto& entry : nodes): best is [min_distance, nearest_node]
RECURSIVE ScanEntries(_, _, _, _, _)
ScanEntries(entries, qlat, qlon, max_radius_m, best) ==
    IF entries = <<>> THEN best
    ELSE LET entry == Head(entries)
             dist == haversine_m(qlat, qlon, entry.lat, entry.lon)
             nbest == IF dist < best.min_distance /\ dist <= max_radius_m
                      THEN [min_distance |-> dist, nearest_node |-> entry.node_id]
                      ELSE best
         IN ScanEntries(Tail(entries), qlat, qlon, max_radius_m, nbest)

RECURSIVE ScanCells(_, _, _, _, _, _)
ScanCells(idx, cellseq, qlat, qlon, max_radius_m, best) ==
    IF cellseq = <<>> THEN best
    ELSE ScanCells(idx, Tail(cellseq), qlat, qlon, max_radius_m,
                   ScanEntries(read_cell_nodes(idx, Head(cellseq)),
                               qlat, qlon, max_radius_m, best))

\* The iterations of the while loop that meet an occupied cell.  An
\* iteration whose ring holds no occupied cell `continue`s on every cell and
\* changes nothing, so the loop is run over these radii only.
RingRadii(idx, qcell) ==
    { r \in UNION { {Max2(1, Max2(Abs(c[1] - qcell[1]), Abs(c[2] - qcell[2]))),
                     Max2(Abs(c[1] - qcell[1]), Abs(c[2] - qcell[2])) + 1}
                    : c \in idx.cells } :
        r <= max_radius_cells }

RECURSIVE FindLoop(_, _, _, _, _, _)
FindLoop(idx, radii, qlat, qlon, max_radius_m, best) ==
    IF radii = {} THEN [min_distance |-> InfDistance, nearest_node |-> 0]
    ELSE LET radius_cells == CHOOSE r \in radii : \A r2 \in radii : r <= r2
             qcell == get_grid_cell(qlat, qlon)
             nbest == ScanCells(idx,
                                CellsInLoopOrder(RingCells(idx, qcell, radius_cells)),
                                qlat, qlon, max_radius_m, best)
         IN IF nbest.nearest_node # 0 THEN nbest
            ELSE FindLoop(idx, radii \ {radius_cells}, qlat, qlon,
                          max_radius_m, nbest)

\* DiskSpatialIndex::find_nearest: returns [nearest_node, min_distance];
\* nearest_node = 0 is `none`.
find_nearest(idx, query_lat, query_lon, max_radius_m) ==
    FindLoop(idx, RingRadii(idx, get_grid_cell(query_lat, query_lon)),
             query_lat, query_lon, max_radius_m,
             [min_distance |-> InfDistance, nearest_node |-> 0])

TheIndex == [cells |-> cells_with_nodes_, files |-> cell_files]

IndexIdle ==
    /\ cells_with_nodes_ = {}
    /\ cell_files = <<>>
    /\ q_query = <<>>
    /\ q_result = <<>>

(* ---- a client of the index: inserts and queries in any order ---- *)
MaxInserts == 3       \* at most this many inserts
IndexNodeIds == 1..2  \* node ids handed to insert

\* Coordinates (in units) used for inserts and queries: around the origin,
\* on both sides of cell borders, 22 km away and beyond 1000 cells.
IndexCoords == {-1, 0, 3, 40, 2100}

IndexRadii == {default_max_radius_m, 600, 1500000}

RECURSIVE SumLen(_, _)
SumLen(f, cs) ==
    IF cs = {} THEN 0
    ELSE LET c == CHOOSE x \in cs : TRUE IN Len(f[c]) + SumLen(f, cs \ {c})

InsertedCount == SumLen(cell_files, DOMAIN cell_files)

IndexInsert ==
    /\ InsertedCount < MaxInserts
    /\ \E id \in IndexNodeIds, lat \in {0, 3}, lon \in IndexCoords :
          LET idx == insert(TheIndex, id, lat, lon)
          IN /\ cells_with_nodes_' = idx.cells
             /\ cell_files' = idx.files
    /\ UNCHANGED <<q_query, q_result, notIndex>>

IndexQuery ==
    /\ \E lat \in {0}, lon \in {-1, 0}, max_radius_m \in IndexRadii :
          /\ q_query' = <<lat, lon, max_radius_m>>
          /\ q_result' = find_nearest(TheIndex, lat, lon, max_radius_m)
    /\ UNCHANGED <<cells_with_nodes_, cell_files, notIndex>>

IndexNext ==
    \/ IndexInsert
    \/ IndexQuery

(***************************************************************************)
(* Claims about the grid index                                             *)
(***************************************************************************)
InsertedEntries == UNION {Range(cell_files[c]) : c \in DOMAIN cell_files}

WithinRadius(e, q) == haversine_m(q[1], q[2], e.lat, e.lon) <= q[3]

QueryDone == q_query # <<>>

\* The query was answered by the index as it is now.
QueryCurrent ==
    QueryDone /\ q_result = find_nearest(TheIndex, q_query[1], q_query[2], q_query[3])

\* C5: find_nearest returns none (node 0, infinite distance) if and only if
\* no inserted node lies within max_radius_m of the query point, and
\* otherwise returns an inserted node within max_radius_m.
C5_NoneIffNothingWithinRadius ==
    QueryCurrent =>
        /\ (q_result.nearest_node = 0) <=>
               ~\E e \in InsertedEntries : WithinRadius(e, q_query)
        /\ q_result.nearest_node = 0 => q_result.min_distance = InfDistance
        /\ q_result.nearest_node # 0 =>
               \E e \in InsertedEntries :
                   /\ e.node_id = q_result.nearest_node
                   /\ WithinRadius(e, q_query)

(***************************************************************************)
(* connect_components.cpp                                                  *)
(***************************************************************************)
MaxCNode == 3     \* node ids 1..MaxCNode may occur in the input
MaxCWays == 2     \* at most this many ways in the input
MaxCRefs == 2     \* at most this many node refs per way

CNodeIds == 1..MaxCNode

NoLocation == [valid |-> FALSE, lat |-> 0, lon |-> 0]

Location(lat, lon) == [valid |-> TRUE, lat |-> lat, lon |-> lon]

\* Node locations of the input: next to each other, 1.7 km apart and 22 km
\* apart (in units of 0.005 degree).
CLocations == {Location(0, 0), Location(0, 3), Location(0, 40)}

CNode(id, loc) ==
    [type |-> "node", id |-> id, loc |-> loc, refs |-> <<>>, routable |-> FALSE]

\* routable is the value of RoutingProfile::is_routable_for_routingkit on
\* the way's tags.
CWay(id, refs, routable) ==
    [type |-> "way", id |-> id, loc |-> NoLocation, refs |-> refs,
     routable |-> routable]

\* Marks a node id that does not occur in the input file.
AbsentNode == [valid |-> FALSE, lat |-> 1, lon |-> 1]

RECURSIVE CNodeSection(_, _)
CNodeSection(locs, id) ==
    IF id > MaxCNode THEN <<>>
    ELSE (IF locs[id] = AbsentNode THEN <<>> ELSE <<CNode(id, locs[id])>>)
         \o CNodeSection(locs, id + 1)

CWaySection(ways) ==
    [i \in 1..Len(ways) |-> CWay(i, ways[i].refs, ways[i].routable)]

\* The ways an input may hold: any routable way, and one way the profile
\* rejects.
CWayChoices ==
    { [refs |-> r, routable |-> TRUE] : r \in SeqsUpTo(CNodeIds, MaxCRefs) \ {<<>>} }
    \cup { [refs |-> <<1, 2>>, routable |-> FALSE] }

EmptyUnionFind == [parent |-> <<>>, rank |-> <<>>]

ConnectIdle ==
    /\ c_input = <<>>
    /\ c_pc = "idle"
    /\ c_pos = 1
    /\ node_index_ = <<>>
    /\ routable_way_ids_ = {}
    /\ routable_node_ids_ = <<>>
    /\ union_find_ = EmptyUnionFind
    /\ components = <<>>
    /\ primary_idx = 0
    /\ synthetic_ways = <<>>

\* main(): state when reader1 is opened.
ConnectInit ==
    /\ \E locs \in [CNodeIds -> CLocations \cup {NoLocation, AbsentNode}],
          ways \in SeqsUpTo(CWayChoices, MaxCWays) :
            c_input = CNodeSection(locs, 1) \o CWaySection(ways)
    /\ c_pc = "pass1"
    /\ c_pos = 1
    /\ node_index_ = <<>>
    /\ routable_way_ids_ = {}
    /\ routable_node_ids_ = <<>>
    /\ union_find_ = EmptyUnionFind
    /\ components = <<>>
    /\ primary_idx = 0
    /\ synthetic_ways = <<>>
    /\ cells_with_nodes_ = {}
    /\ cell_files = <<>>

(* ---- UnionFind ---- *)
\* UnionFind::find (const): follows parents without compression; an id that
\* was never touched is its own root.
RECURSIVE find(_, _)
find(uf, x) ==
    IF x \notin DOMAIN uf.parent THEN x
    ELSE IF uf.parent[x] # x THEN find(uf, uf.parent[x])
    ELSE uf.parent[x]

\* UnionFind::find_mutable: returns [uf, root] with the path compressed.
RECURSIVE find_mutable(_, _)
find_mutable(uf, x) ==
    IF x \notin DOMAIN uf.parent
    THEN [uf |-> [parent |-> [y \in DOMAIN uf.parent \cup {x} |->
                                IF y = x THEN x ELSE uf.parent[y]],
                  rank |-> [y \in DOMAIN uf.rank \cup {x} |->
                                IF y = x THEN 0 ELSE uf.rank[y]]],
          root |-> x]
    ELSE IF uf.parent[x] # x
    THEN LET r == find_mutable(uf, uf.parent[x])
         IN [uf |-> [r.uf EXCEPT !.parent[x] = r.root], root |-> r.root]
    ELSE [uf |-> uf, root |-> uf.parent[x]]

\* unite as it would be if it linked the two nodes instead of their roots
unite_LinkNodes(uf, x, y) ==
    LET fx == find_mutable(uf, x)
        fy == find_mutable(fx.uf, y)
    IN IF fx.root = fy.root THEN fy.uf
       ELSE [fy.uf EXCEPT !.parent[y] = x]

\* UnionFind::unite
unite(uf, x, y) ==
    LET fx == find_mutable(uf, x)
        fy == find_mutable(fx.uf, y)
        root_x == fx.root
        root_y == fy.root
        u == fy.uf
    IN IF root_x = root_y THEN u
       ELSE IF u.rank[root_x] < u.rank[root_y]
            THEN [u EXCEPT !.parent[root_x] = root_y]
       ELSE IF u.rank[root_x] > u.rank[root_y]
            THEN [u EXCEPT !.parent[root_y] = root_x]
       ELSE [u EXCEPT !.parent[root_y] = root_x,
                      !.rank[root_x] = u.rank[root_x] + 1]

\* for (i = 0; i < node_list.size() - 1; ++i) unite(node_list[i], node_list[i+1])
RECURSIVE UniteConsecutive(_, _, _)
UniteConsecutive(uf, node_list, i) ==
    IF i >= Len(node_list) THEN uf
    ELSE UniteConsecutive(unite(uf, node_list[i], node_list[i + 1]),
                          node_list, i + 1)

\* Insertion into an ankerl::unordered_dense::set, which keeps its elements
\* in insertion order.
InsertAll(dense, node_list) ==
    LET RECURSIVE Go(_, _)
        Go(acc, i) ==
            IF i > Len(node_list) THEN acc
            ELSE Go(IF node_list[i] \in Range(acc) THEN acc
                    ELSE Append(acc, node_list[i]), i + 1)
    IN Go(dense, 1)

(* ---- Pass 1: RoutableGraphExtractor ---- *)
\* SparseFileArray::set
IndexSet(index, id, loc) ==
    [k \in DOMAIN index \cup {id} |-> IF k = id THEN loc ELSE index[k]]

\* RoutableGraphExtractor::node
ExtractorNode ==
    /\ c_pc = "pass1"
    /\ c_pos <= Len(c_input)
    /\ c_input[c_pos].type = "node"
    /\ node_index_' = IF c_input[c_pos].loc.valid
                      THEN IndexSet(node_index_, c_input[c_pos].id, c_input[c_pos].loc)
                      ELSE node_index_
    /\ c_pos' = c_pos + 1
    /\ UNCHANGED <<c_input, c_pc, routable_way_ids_, routable_node_ids_,
                   union_find_, components, primary_idx, synthetic_ways,
                   cells_with_nodes_, cell_files, notConnect>>

\* RoutableGraphExtractor::way
ExtractorWay ==
    /\ c_pc = "pass1"
    /\ c_pos <= Len(c_input)
    /\ c_input[c_pos].type = "way"
    /\ LET way == c_input[c_pos]
           node_list == way.refs
       IN IF ~way.routable
          THEN UNCHANGED <<routable_node_ids_, routable_way_ids_, union_find_>>
          ELSE /\ routable_node_ids_' = InsertAll(routable_node_ids_, node_list)
               /\ IF Len(node_list) < 2
                  THEN UNCHANGED <<routable_way_ids_, union_find_>>
                  ELSE /\ routable_way_ids_' = routable_way_ids_ \cup {way.id}
                       /\ union_find_' = UniteConsecutive(union_find_, node_list, 1)
    /\ c_pos' = c_pos + 1
    /\ UNCHANGED <<c_input, c_pc, node_index_, components, primary_idx,
                   synthetic_ways, cells_with_nodes_, cell_files, notConnect>>

(* ---- components, primary component, spatial index ---- *)
\* compute_connected_components: components in order of first appearance of
\* their root, each with its nodes in insertion order.
compute_connected_components(uf, routable_node_ids) ==
    LET RECURSIVE Go(_, _, _)
        Go(comps, roots, i) ==
            IF i > Len(routable_node_ids) THEN comps
            ELSE LET node_id == routable_node_ids[i]
                     root == find(uf, node_id)
                 IN IF \E k \in 1..Len(roots) : roots[k] = root
                    THEN LET comp_idx == CHOOSE k \in 1..Len(roots) : roots[k] = root
                         IN Go([comps EXCEPT ![comp_idx] = Append(@, node_id)],
                               roots, i + 1)
                    ELSE Go(Append(comps, <<node_id>>), Append(roots, root), i + 1)
    IN Go(<<>>, <<>>, 1)

\* component_sizes sorted by size, largest first; std::sort leaves the order
\* of equal sizes open, so every largest component may come first.
PrimaryCandidates(comps) ==
    { i \in 1..Len(comps) : \A j \in 1..Len(comps) : Len(comps[i]) >= Len(comps[j]) }

\* main(): component computation and choice of the primary component
\* (with no component at all main() returns 1).
ComputeComponents ==
    /\ c_pc = "pass1"
    /\ c_pos > Len(c_input)
    /\ LET comps == compute_connected_components(union_find_, routable_node_ids_)
       IN /\ components' = comps
          /\ IF comps = <<>>
             THEN /\ c_pc' = "failed"
                  /\ primary_idx' = 0
             ELSE /\ c_pc' = "index"
                  /\ primary_idx' \in PrimaryCandidates(comps)
    /\ c_pos' = 1
    /\ UNCHANGED <<c_input, node_index_, routable_way_ids_, routable_node_ids_,
                   union_find_, synthetic_ways, cells_with_nodes_, cell_files,
                   notConnect>>

\* Mutant of IndexedNodes: the index is built over every routable node.
RECURSIVE IndexedNodes_AllComponents(_, _)
IndexedNodes_AllComponents(comps, pidx) ==
    IF comps = <<>> THEN <<>>
    ELSE Head(comps) \o IndexedNodes_AllComponents(Tail(comps), pidx)

\* The nodes main() inserts into primary_index.
IndexedNodes(comps, pidx) == comps[pidx]

\* for (node_id : primary_component.nodes): insert the located ones
RECURSIVE InsertLocated(_, _, _)
InsertLocated(idx, nodes, index) ==
    IF nodes = <<>> THEN idx
    ELSE LET node_id == Head(nodes)
         IN InsertLocated(IF node_id \in DOMAIN index /\ index[node_id].valid
                          THEN insert(idx, node_id, index[node_id].lat,
                                      index[node_id].lon)
                          ELSE idx,
                          Tail(nodes), index)

\* main(): build the spatial index of the primary component
BuildIndex ==
    /\ c_pc = "index"
    /\ LET idx == InsertLocated(EmptyIndex, IndexedNodes(components, primary_idx),
                                node_index_)
       IN /\ cells_with_nodes_' = idx.cells
          /\ cell_files' = idx.files
    /\ c_pc' = "bridge"
    /\ c_pos' = 1
    /\ UNCHANGED <<c_input, node_index_, routable_way_ids_, routable_node_ids_,
                   union_find_, components, primary_idx, synthetic_ways,
                   notConnect>>

(* ---- bridging ---- *)
\* find_closest_nodes: returns <<node1, node2>>, <<0, 0>> when nothing found
find_closest_nodes(comp1, idx, index) ==
    LET RECURSIVE Go(_, _)
        Go(i, best) ==
            IF i > Len(comp1) THEN best
            ELSE LET n1 == comp1[i]
                 IN IF n1 \notin DOMAIN index \/ ~index[n1].valid
                    THEN Go(i + 1, best)
                    ELSE LET result == find_nearest(idx, index[n1].lat, index[n1].lon,
                                                    default_max_radius_m)
                         IN IF result.nearest_node # 0
                               /\ result.min_distance < best.min_distance
                            THEN Go(i + 1, [min_distance |-> result.min_distance,
                                            node1 |-> n1,
                                            node2 |-> result.nearest_node])
                            ELSE Go(i + 1, best)
        found == Go(1, [min_distance |-> InfDistance, node1 |-> 0, node2 |-> 0])
    IN <<found.node1, found.node2>>

SyntheticWay(node1, node2, index) ==
    [way_id |-> -1, node1 |-> node1, node2 |-> node2,
     distance_m |-> IF /\ node1 \in DOMAIN index /\ node2 \in DOMAIN index
                       /\ index[node1].valid /\ index[node2].valid
                    THEN haversine_m(index[node1].lat, index[node1].lon,
                                     index[node2].lat, index[node2].lon)
                    ELSE 0]

\* main(): one iteration of the bridging loop
BridgeComponent ==
    /\ c_pc = "bridge"
    /\ c_pos <= Len(components)
    /\ IF c_pos = primary_idx
       THEN UNCHANGED synthetic_ways
       ELSE LET pair == find_closest_nodes(components[c_pos], TheIndex, node_index_)
            IN synthetic_ways' =
                 IF pair[1] # 0 /\ pair[2] # 0
                 THEN Append(synthetic_ways, SyntheticWay(pair[1], pair[2], node_index_))
                 ELSE synthetic_ways
    /\ c_pos' = c_pos + 1
    /\ UNCHANGED <<c_input, c_pc, node_index_, routable_way_ids_,
                   routable_node_ids_, union_find_, components, primary_idx,
                   cells_with_nodes_, cell_files, notConnect>>

\* main(): all components handled; primary_index.cleanup()
BridgeEnd ==
    /\ c_pc = "bridge"
    /\ c_pos > Len(components)
    /\ c_pc' = "bridged"
    /\ cells_with_nodes_' = {}
    /\ cell_files' = <<>>
    /\ UNCHANGED <<c_input, c_pos, node_index_, routable_way_ids_,
                   routable_node_ids_, union_find_, components, primary_idx,
                   synthetic_ways, notConnect>>

(* ---- pass 2: ConnectedGraphWriter ---- *)
WriterIdle ==
    /\ cw_out = <<>>
    /\ written_node_ids_ = {}

\* a record of the connected PBF; synthetic is the tag synthetic=yes
OutNode(id) == [type |-> "node", id |-> id, refs |-> <<>>, synthetic |-> FALSE]
OutWay(id, refs, synthetic) ==
    [type |-> "way", id |-> id, refs |-> refs, synthetic |-> synthetic]

\* main(): reader2 and the writer are opened
Pass2Open ==
    /\ c_pc = "bridged"
    /\ c_pc' = "pass2"
    /\ c_pos' = 1
    /\ cw_out' = <<>>
    /\ written_node_ids_' = {}
    /\ UNCHANGED <<c_input, node_index_, routable_way_ids_, routable_node_ids_,
                   union_find_, components, primary_idx, synthetic_ways,
                   cells_with_nodes_, cell_files, notWriter>>

\* ConnectedGraphWriter::node
WriterNode ==
    /\ c_pc = "pass2"
    /\ c_pos <= Len(c_input)
    /\ c_input[c_pos].type = "node"
    /\ LET node_id == c_input[c_pos].id
           should_write ==
               \/ node_id \in Range(components[primary_idx])
               \/ \E k \in 1..Len(synthetic_ways) :
                     \/ synthetic_ways[k].node1 = node_id
                     \/ synthetic_ways[k].node2 = node_id
       IN IF /\ should_write
             /\ c_input[c_pos].loc.valid
             /\ node_id \notin written_node_ids_
          THEN /\ cw_out' = Append(cw_out, OutNode(node_id))
               /\ written_node_ids_' = written_node_ids_ \cup {node_id}
          ELSE UNCHANGED <<cw_out, written_node_ids_>>
    /\ c_pos' = c_pos + 1
    /\ UNCHANGED <<c_input, c_pc, node_index_, routable_way_ids_,
                   routable_node_ids_, union_find_, components, primary_idx,
                   synthetic_ways, cells_with_nodes_, cell_files, notWriter>>

\* ConnectedGraphWriter::way
WriterWay ==
    /\ c_pc = "pass2"
    /\ c_pos <= Len(c_input)
    /\ c_input[c_pos].type = "way"
    /\ cw_out' = IF c_input[c_pos].id \in routable_way_ids_
                 THEN Append(cw_out, OutWay(c_input[c_pos].id,
                                            c_input[c_pos].refs, FALSE))
                 ELSE cw_out
    /\ c_pos' = c_pos + 1
    /\ UNCHANGED <<c_input, c_pc, node_index_, routable_way_ids_,
                   routable_node_ids_, union_find_, components, primary_idx,
                   synthetic_ways, cells_with_nodes_, cell_files,
                   written_node_ids_, notWriter>>

\* builder.set_id(synthetic_way_id--): the id of the next synthetic way
NextSyntheticId_Same(synthetic_way_id) == synthetic_way_id

NextSyntheticId(synthetic_way_id) == synthetic_way_id - 1

\* ConnectedGraphWriter::write_synthetic_ways: the records it writes
RECURSIVE SyntheticRecords(_, _, _)
SyntheticRecords(ways, index, synthetic_way_id) ==
    IF ways = <<>> THEN <<>>
    ELSE LET synth_way == Head(ways)
             node1_exists == synth_way.node1 \in DOMAIN index
             node2_exists == synth_way.node2 \in DOMAIN index
         IN IF ~node1_exists \/ ~node2_exists
            THEN SyntheticRecords(Tail(ways), index, synthetic_way_id)
            ELSE <<OutWay(synthetic_way_id,
                          <<synth_way.node1, synth_way.node2>>, TRUE)>>
                 \o SyntheticRecords(Tail(ways), index,
                                     NextSyntheticId(synthetic_way_id))

\* main(): reader2 is at its end; write_synthetic_ways() and writer.close()
WriteSyntheticWays ==
    /\ c_pc = "pass2"
    /\ c_pos > Len(c_input)
    /\ cw_out' = cw_out \o SyntheticRecords(synthetic_ways, node_index_, -1)
    /\ c_pc' = "done"
    /\ UNCHANGED <<c_input, c_pos, node_index_, routable_way_ids_,
                   routable_node_ids_, union_find_, components, primary_idx,
                   synthetic_ways, cells_with_nodes_, cell_files,
                   written_node_ids_, notWriter>>

ConnectNext ==
    \/ ExtractorNode
    \/ ExtractorWay
    \/ ComputeComponents
    \/ BuildIndex
    \/ BridgeComponent
    \/ BridgeEnd
    \/ Pass2Open
    \/ WriterNode
    \/ WriterWay
    \/ WriteSyntheticWays

(***************************************************************************)
(* Claims about component bridging                                         *)
(***************************************************************************)
\* The routable ways of the input, read off the input file itself.
RoutableInputWays ==
    { c_input[i] : i \in { k \in 1..Len(c_input) :
                             c_input[k].type = "way" /\ c_input[k].routable } }

RoutableVertices == UNION { Range(w.refs) : w \in RoutableInputWays }

OriginalEdges ==
    UNION { { <<w.refs[i], w.refs[i + 1]>> : i \in 1..(Len(w.refs) - 1) }
            : w \in RoutableInputWays }

SyntheticEdges ==
    { <<synthetic_ways[i].node1, synthetic_ways[i].node2>> :
        i \in 1..Len(synthetic_ways) }

\* Vertices reachable from the set `seen` along undirected edges.
RECURSIVE Reach(_, _)
Reach(seen, edges) ==
    LET next == seen \cup { e[2] : e \in { d \in edges : d[1] \in seen } }
                     \cup { e[1] : e \in { d \in edges : d[2] \in seen } }
    IN IF next = seen THEN seen ELSE Reach(next, edges)

Connected(vertices, edges) ==
    \A u \in vertices : vertices \subseteq Reach({u}, edges)

AllRoutableNodesLocated ==
    \A n \in RoutableVertices :
        \E i \in 1..Len(c_input) :
            /\ c_input[i].type = "node"
            /\ c_input[i].id = n
            /\ c_input[i].loc.valid

\* C1: after bridging, the original routable ways together with the
\* emitted synthetic ways form exactly one connected component, however far
\* a component lies from the primary one (stated for inputs in which every
\* node of a routable way has a location).
C1_OneComponentAfterBridging ==
    (c_pc = "bridged" /\ AllRoutableNodesLocated) =>
        Connected(RoutableVertices, OriginalEdges \cup SyntheticEdges)

\* C4: every emitted synthetic way (n1, n2) joins two different components
\* of the original graph, n1 in a non-primary component and n2 in the
\* primary component, and neither endpoint is the `none` sentinel 0.
C4_SyntheticWayJoinsNonPrimaryToPrimary ==
    \A k \in 1..Len(synthetic_ways) :
        LET n1 == synthetic_ways[k].node1
            n2 == synthetic_ways[k].node2
        IN /\ n1 # 0
           /\ n2 # 0
           /\ n2 \notin Reach({n1}, OriginalEdges)
           /\ n2 \in Range(components[primary_idx])
           /\ \E i \in 1..Len(components) :
                 i # primary_idx /\ n1 \in Range(components[i])

\* C4 witness: bridging finished and a synthetic way joins a component of
\* two nodes to the primary component.
C4_Witness ==
    /\ c_pc = "bridged"
    /\ Len(synthetic_ways) = 1
    /\ Len(components) = 2
    /\ Len(components[primary_idx]) = 2

\* the smallest node id of a component
MinNode(comp) == CHOOSE n \in Range(comp) : \A m \in Range(comp) : n <= m

\* C16: the primary component is one with the largest node count, and among
\* several components of the largest count it is the one that contains the
\* smallest node id.
C16_PrimaryIsLargestWithSmallestNode ==
    primary_idx # 0 =>
        \A j \in 1..Len(components) :
            /\ Len(components[primary_idx]) >= Len(components[j])
            /\ Len(components[primary_idx]) = Len(components[j]) =>
                  MinNode(components[primary_idx]) <= MinNode(components[j])

\* main() has computed the components
ComponentsComputed == c_pc \notin {"idle", "pass1"}

\* the component (its index) a node is in
ComponentsOf(n) == { i \in 1..Len(components) : n \in Range(components[i]) }

\* C17: once all ways are streamed the components partition the node ids
\* that appear in any routable way: every such node is in exactly one
\* component, once, and two nodes are in the same component exactly when a
\* chain of consecutive node pairs of routable ways links them.
C17_ComponentsPartitionRoutableNodes ==
    ComponentsComputed =>
        /\ UNION { Range(components[i]) : i \in 1..Len(components) } = RoutableVertices
        /\ \A i \in 1..Len(components) :
              /\ components[i] # <<>>
              /\ Cardinality(Range(components[i])) = Len(components[i])
        /\ \A n \in RoutableVertices : Cardinality(ComponentsOf(n)) = 1
        /\ \A u \in RoutableVertices, v \in RoutableVertices :
              ComponentsOf(u) = ComponentsOf(v) <=> v \in Reach({u}, OriginalEdges)

\* three nodes joined by two ways make one component
C17_Witness ==
    /\ ComponentsComputed
    /\ Len(components) = 1
    /\ Len(components[1]) = 3
    /\ Cardinality(RoutableInputWays) = 2

(* ---- inputs of three ways, for the claims about several bridges ---- *)
MaxBridgeWays == 3     \* the input holds exactly this many routable ways

\* Node locations on both sides of cell borders: (3, 3) lies in the cell
\* next to that of (0, 0) and two cells from that of (3, 6).
BridgeLocations == {Location(0, 0), Location(3, 3), Location(3, 6)}

BridgeWayChoices == {<<1>>, <<2>>, <<3>>, <<1, 2>>, <<3, 3>>}

\* main(): state when reader1 is opened
BridgesInit ==
    /\ \E locs \in [CNodeIds -> BridgeLocations \cup {NoLocation}],
          ways \in [1..MaxBridgeWays -> BridgeWayChoices] :
            c_input = CNodeSection(locs, 1)
                      \o CWaySection([i \in 1..MaxBridgeWays |->
                                         [refs |-> ways[i], routable |-> TRUE]])
    /\ c_pc = "pass1"
    /\ c_pos = 1
    /\ node_index_ = <<>>
    /\ routable_way_ids_ = {}
    /\ routable_node_ids_ = <<>>
    /\ union_find_ = EmptyUnionFind
    /\ components = <<>>
    /\ primary_idx = 0
    /\ synthetic_ways = <<>>
    /\ cells_with_nodes_ = {}
    /\ cell_files = <<>>

(* ---- claims about the connected PBF ---- *)
IsSynthetic(record) == record.synthetic

FoundInIndex(synth_way) ==
    synth_way.node1 \in DOMAIN node_index_ /\ synth_way.node2 \in DOMAIN node_index_

\* C25: during Pass-2 output each emitted synthetic way is written if and
\* only if both of its nodes are found in the node-location index, and the
\* written synthetic ways carry exactly two node refs and the distinct
\* negative ids -1, -2, ..., -k in the order they are written.
C25_SyntheticWaysWrittenWithIds ==
    c_pc = "done" =>
        LET written == SelectSeq(cw_out, IsSynthetic)
            expected == SelectSeq(synthetic_ways, FoundInIndex)
        IN /\ Len(written) = Len(expected)
           /\ \A k \in 1..Len(written) :
                 /\ written[k].type = "way"
                 /\ written[k].id = -k
                 /\ Len(written[k].refs) = 2
                 /\ written[k].refs = <<expected[k].node1, expected[k].node2>>

\* two components were bridged and both synthetic ways are in the output
C25_Witness ==
    /\ c_pc = "done"
    /\ Len(synthetic_ways) = 2
    /\ Len(SelectSeq(cw_out, IsSynthetic)) = 2

\* the located nodes of a component
LocatedNodes(comp) == { n \in Range(comp) : n \in DOMAIN node_index_ }

NodeDistance(a, b) ==
    haversine_m(node_index_[a].lat, node_index_[a].lon,
                node_index_[b].lat, node_index_[b].lon)

\* C27: for each bridged non-primary component C, the synthetic way's
\* endpoints (node1 in C, node2 in the primary component) attain the
\* minimum distance over all pairs of a located node of C and a located
\* node of the primary component.
C27_BridgeIsShortest ==
    \A k \in 1..Len(synthetic_ways) :
        LET node1 == synthetic_ways[k].node1
            node2 == synthetic_ways[k].node2
        IN \A i \in 1..Len(components) :
              (i # primary_idx /\ node1 \in Range(components[i])) =>
                 \A a \in LocatedNodes(components[i]),
                    b \in LocatedNodes(components[primary_idx]) :
                     NodeDistance(node1, node2) <= NodeDistance(a, b)

\* C28 (connected PBF): records are written in OSM canonical order, every
\* node record before every way record, and within one type in the order
\* received from the reader with ids ascending, the synthetic ways
\* included.
C28_CanonicalOrder ==
    c_pc = "done" =>
        \A i, j \in 1..Len(cw_out) :
            i < j =>
               /\ cw_out[i].type = "way" => cw_out[j].type = "way"
               /\ cw_out[i].type = cw_out[j].type => cw_out[i].id < cw_out[j].id

\* C29: in the connected PBF every node referenced by a written way, an
\* original routable way of any component or a synthetic way, is itself
\* written as a node, and no node is written more than once (stated for
\* inputs in which every node of a routable way has a location).
C29_WrittenWaysHaveTheirNodes ==
    (c_pc = "done" /\ AllRoutableNodesLocated) =>
        LET nodes == SelectSeq(cw_out, LAMBDA r : r.type = "node")
            node_ids == { nodes[i].id : i \in 1..Len(nodes) }
        IN /\ \A i \in 1..Len(cw_out) :
                 cw_out[i].type = "way" => Range(cw_out[i].refs) \subseteq node_ids
           /\ Cardinality(node_ids) = Len(nodes)

(***************************************************************************)
(* CategoryMatcher.cpp                                                     *)
(***************************************************************************)
NoPlaceTags == [amenity |-> "", shop |-> ""]

\* The category configuration of the run (YAML): name, max_per_region and
\* ordered (key, value) rules; "*" is the wildcard.
categories_ ==
    << [name |-> "bar", max_per_region |-> 1,
        tag_rules |-> << <<"amenity", "bar">> >>],
       [name |-> "shop", max_per_region |-> 2,
        tag_rules |-> << <<"shop", "*">>, <<"amenity", "marketplace">> >>] >>

\* An absent key is the empty string (get_value_by_key returns null).
tag_matches_rule(tags, key, value) ==
    IF tags[key] = "" THEN FALSE
    ELSE IF value = "*" THEN TRUE
    ELSE tags[key] = value

\* the inner loop of match_category: some rule from the k-th on matches
RECURSIVE AnyRuleFrom(_, _, _)
AnyRuleFrom(tag_rules, tags, k) ==
    IF k > Len(tag_rules) THEN FALSE
    ELSE IF tag_matches_rule(tags, tag_rules[k][1], tag_rules[k][2]) THEN TRUE
    ELSE AnyRuleFrom(tag_rules, tags, k + 1)

\* the outer loop of match_category from category i (1-based) on
RECURSIVE MatchFrom(_, _, _)
MatchFrom(cats, tags, i) ==
    IF i > Len(cats) THEN -1
    ELSE IF AnyRuleFrom(cats[i].tag_rules, tags, 1) THEN i - 1
    ELSE MatchFrom(cats, tags, i + 1)

\* match_category as it would be if a later match replaced an earlier one
RECURSIVE match_category_in_LastMatch(_, _)
match_category_in_LastMatch(cats, tags) ==
    IF cats = <<>> THEN -1
    ELSE IF AnyRuleFrom(cats[Len(cats)].tag_rules, tags, 1) THEN Len(cats) - 1
    ELSE match_category_in_LastMatch(SubSeq(cats, 1, Len(cats) - 1), tags)

\* CategoryMatcher::match_category of a matcher whose categories_ is cats:
\* the 0-based index returned, -1 for no match
match_category_in(cats, tags) == MatchFrom(cats, tags, 1)

\* CategoryMatcher::match_category with the configuration of the run
match_category(tags) == match_category_in(categories_, tags)

(* ---- match_category on its own ---- *)
MaxCategories == 2     \* categories in a configuration
MaxRules == 2          \* tag rules in a category

MatchRules == { <<"amenity", "bar">>, <<"amenity", "*">>, <<"shop", "bakery">> }

MatchCategories ==
    { [name |-> "c", max_per_region |-> 1, tag_rules |-> r] :
        r \in SeqsUpTo(MatchRules, MaxRules) }

MatchTags ==
    [amenity : {"", "bar", "cafe"}, shop : {"", "bakery", "kiosk"}]

MatchIdle ==
    /\ mc_categories = <<>>
    /\ mc_tags = NoPlaceTags
    /\ mc_result = -2

\* one call of match_category on a matcher loaded with cats
MatchCategory ==
    /\ mc_result = -2
    /\ \E cats \in SeqsUpTo(MatchCategories, MaxCategories), tags \in MatchTags :
          /\ mc_categories' = cats
          /\ mc_tags' = tags
          /\ mc_result' = match_category_in(cats, tags)
    /\ UNCHANGED notMatch

\* the matcher is dropped and another one is loaded
MatchReturn ==
    /\ mc_result # -2
    /\ mc_categories' = <<>>
    /\ mc_tags' = NoPlaceTags
    /\ mc_result' = -2
    /\ UNCHANGED notMatch

MatchNext == MatchCategory \/ MatchReturn

\* category i (1-based) of mc_categories has a rule that mc_tags satisfies:
\* the key is present and the value is equal or the rule's value is "*"
CategoryMatches(i) ==
    \E k \in 1..Len(mc_categories[i].tag_rules) :
        LET key == mc_categories[i].tag_rules[k][1]
            value == mc_categories[i].tag_rules[k][2]
        IN mc_tags[key] # "" /\ (value = "*" \/ mc_tags[key] = value)

\* C15: match_category returns the smallest index i, in declared order, of
\* a category with a rule that matches the tags, and -1 exactly when no
\* category has one.
C15_FirstMatchingCategory ==
    mc_result # -2 =>
        /\ mc_result \in -1..(Len(mc_categories) - 1)
        /\ mc_result = -1 <=> \A i \in 1..Len(mc_categories) : ~CategoryMatches(i)
        /\ mc_result >= 0 =>
              /\ CategoryMatches(mc_result + 1)
              /\ \A j \in 1..mc_result : ~CategoryMatches(j)

\* two categories match and the first one is returned
C15_Witness ==
    /\ mc_result = 0
    /\ Len(mc_categories) = 2
    /\ CategoryMatches(1)
    /\ CategoryMatches(2)

(***************************************************************************)
(* extract_categorized_places.cpp                                          *)
(*                                                                         *)
(* A location is one integer coordinate; the NUTS regions are intervals    *)
(* of it.  The centroid of locations is their mean, rounded down.          *)
(***************************************************************************)
MaxPNode == 2      \* node ids 1..MaxPNode may occur in the input
MaxPWays == 1      \* at most this many ways in the input
MaxPRels == 1      \* at most this many relations in the input
MaxSeed == 1       \* std::random_device yields a seed in 0..MaxSeed
KeyRange == 16     \* the keys dist_(rng_) yields are 0..KeyRange-1

PNodeIds == 1..MaxPNode

\* NUTSIndex::regions_ : the polygons of the regions GeoJSON
regions_ == << [nuts_id |-> "NL31", lo |-> 0, hi |-> 3],
               [nuts_id |-> "NL32", lo |-> 6, hi |-> 9] >>

\* NUTSIndex::lookup_wgs84: id of the first region containing the point,
\* "" when the point is in no region.
lookup_wgs84(x) ==
    IF \E i \in 1..Len(regions_) : regions_[i].lo <= x /\ x <= regions_[i].hi
    THEN regions_[CHOOSE i \in 1..Len(regions_) :
                     /\ regions_[i].lo <= x /\ x <= regions_[i].hi
                     /\ \A j \in 1..(i - 1) :
                           ~(regions_[j].lo <= x /\ x <= regions_[j].hi)].nuts_id
    ELSE ""

\* Node coordinates of the input: in NL31, in NL32, outside every region.
\* The mean of the first two lies between the regions.
PCoords == {0, 8, 12}

PTagChoices == { [NoPlaceTags EXCEPT !.amenity = "bar"],
                 [NoPlaceTags EXCEPT !.shop = "bakery"],
                 NoPlaceTags }

PNode(id, valid, x, tags) ==
    [type |-> "node", id |-> id, valid |-> valid, x |-> x, tags |-> tags,
     refs |-> <<>>]

PWay(id, refs, tags) ==
    [type |-> "way", id |-> id, valid |-> FALSE, x |-> 0, tags |-> tags,
     refs |-> refs]

\* refs of a relation are its way members with role "outer"
PRelation(id, refs, tags) ==
    [type |-> "relation", id |-> id, valid |-> FALSE, x |-> 0, tags |-> tags,
     refs |-> refs]

PAbsent == PNode(0, FALSE, 0, NoPlaceTags)

\* A node of the input: matching or not inside NL31, matching inside NL32
\* and outside every region, matching without a valid location, or absent.
PNodeChoices(id) ==
    { PNode(id, TRUE, 0, tags) : tags \in PTagChoices }
    \cup { PNode(id, TRUE, 8, tags) : tags \in PTagChoices \ {NoPlaceTags} }
    \cup { PNode(id, TRUE, 12, [NoPlaceTags EXCEPT !.amenity = "bar"]),
           PNode(id, FALSE, 0, [NoPlaceTags EXCEPT !.amenity = "bar"]), PAbsent }

RECURSIVE PNodeSection(_, _)
PNodeSection(nodes, id) ==
    IF id > MaxPNode THEN <<>>
    ELSE (IF nodes[id] = PAbsent THEN <<>> ELSE <<nodes[id]>>)
         \o PNodeSection(nodes, id + 1)

PlacesIdle ==
    /\ p_input = <<>>
    /\ p_pc = "idle"
    /\ p_pos = 1
    /\ p_run = 0
    /\ rng_ = [seed |-> 0, draws |-> 0]
    /\ p_node_index = <<>>
    /\ p_way_index = <<>>
    /\ node_regions_ = <<>>
    /\ way_regions_ = <<>>
    /\ relation_regions_ = <<>>
    /\ region_codes_ = <<>>
    /\ node_queues_ = <<>>
    /\ way_queues_ = <<>>
    /\ relation_queues_ = <<>>
    /\ csv_rows = {}
    /\ first_csv_rows = {}

\* SinglePassHandler::SinglePassHandler: one empty queue per category
InitialQueues == [c \in 1..Len(categories_) |-> << {} >>]

\* The seed main() constructs the handler with: main() passes none, so it
\* is the default argument std::random_device{}().
HandlerSeeds == 0..MaxSeed

\* State of a freshly constructed handler in main().
HandlerConstructed ==
    /\ p_pc' = "stream"
    /\ p_pos' = 1
    /\ \E seed \in HandlerSeeds : rng_' = [seed |-> seed, draws |-> 0]
    /\ p_node_index' = <<>>
    /\ p_way_index' = <<>>
    /\ node_regions_' = <<>>
    /\ way_regions_' = <<>>
    /\ relation_regions_' = <<>>
    /\ region_codes_' = <<>>
    /\ node_queues_' = InitialQueues
    /\ way_queues_' = InitialQueues
    /\ relation_queues_' = InitialQueues
    /\ csv_rows' = {}

PlacesInit ==
    /\ \E nodes \in [PNodeIds -> UNION {PNodeChoices(id) : id \in PNodeIds}],
          ways \in SeqsUpTo([refs : SeqsUpTo(PNodeIds, 2) \ {<<>>},
                             tags : PTagChoices], MaxPWays),
          rels \in SeqsUpTo([refs : SeqsUpTo(1..MaxPWays, 1),
                             tags : PTagChoices], MaxPRels) :
        /\ \A id \in PNodeIds : nodes[id] \in PNodeChoices(id)
        /\ p_input = PNodeSection(nodes, 1)
                     \o [i \in 1..Len(ways) |-> PWay(i, ways[i].refs, ways[i].tags)]
                     \o [i \in 1..Len(rels) |-> PRelation(i, rels[i].refs, rels[i].tags)]
    /\ p_pc = "stream"
    /\ p_pos = 1
    /\ p_run = 1
    /\ rng_ \in [seed : HandlerSeeds, draws : {0}]
    /\ p_node_index = <<>>
    /\ p_way_index = <<>>
    /\ node_regions_ = <<>>
    /\ way_regions_ = <<>>
    /\ relation_regions_ = <<>>
    /\ region_codes_ = <<>>
    /\ node_queues_ = InitialQueues
    /\ way_queues_ = InitialQueues
    /\ relation_queues_ = InitialQueues
    /\ csv_rows = {}
    /\ first_csv_rows = {}

(* ---- random keys ---- *)
\* dist_(rng_): the key of the draw is a fixed function of the seed and of
\* the number of draws made before it.
KeyOf(seed, draws) == ((seed + 1) * 37 + draws * (seed * 2 + 1) * 11) % KeyRange

(* ---- queues ---- *)
\* std::priority_queue with std::greater: top() is the smallest
\* (key, (id, tags_json)) pair.
QueueTop(queue) ==
    CHOOSE e \in queue :
        \A f \in queue : e[1] < f[1] \/ (e[1] = f[1] /\ e[2] <= f[2])

\* SinglePassHandler::apply_reservoir_sampling with random already drawn
apply_reservoir_sampling(queue, random, id, max_per_region) ==
    IF Cardinality(queue) < max_per_region
    THEN queue \cup {<<random, id>>}
    ELSE IF random > QueueTop(queue)[1]
    THEN (queue \ {QueueTop(queue)}) \cup {<<random, id>>}
    ELSE queue

IndexOf(seq, v) == CHOOSE i \in 1..Len(seq) : seq[i] = v

\* SinglePassHandler::get_or_create_region_index (1-based); the resize of
\* the three queue families is ResizeQueues.
RegionCodesWith(codes, region_code) ==
    IF region_code \in Range(codes) THEN codes ELSE Append(codes, region_code)

ResizeQueues(queues, n) ==
    [c \in DOMAIN queues |->
        [r \in 1..Max2(Len(queues[c]), n) |->
            IF r <= Len(queues[c]) THEN queues[c][r] ELSE {}]]

\* index (1-based) get_or_create_region_index returns for region_code
RegionIdx(codes, region_code) ==
    IndexOf(RegionCodesWith(codes, region_code), region_code)

\* A queue family after get_or_create_region_index(region_code)
Resized(queues, region_code) ==
    ResizeQueues(queues, Len(RegionCodesWith(region_codes_, region_code)))

\* A queue family after get_or_create_region_index(region_code) and then
\* apply_reservoir_sampling on the queue of (cat, region_code); cat is the
\* 0-based category index.
Sampled(queues, cat, region_code, id) ==
    [Resized(queues, region_code) EXCEPT
        ![cat + 1][RegionIdx(region_codes_, region_code)] =
            apply_reservoir_sampling(@, KeyOf(rng_.seed, rng_.draws), id,
                                     categories_[cat + 1].max_per_region)]

MapSet(m, k, v) == [j \in DOMAIN m \cup {k} |-> IF j = k THEN v ELSE m[j]]

\* PlaceExtraction::compute_centroid over the valid locations
RECURSIVE SumSeq(_)
SumSeq(xs) == IF xs = <<>> THEN 0 ELSE Head(xs) + SumSeq(Tail(xs))

compute_centroid(locations) == SumSeq(locations) \div Len(locations)

\* Locations of the refs found in an index (a miss throws and is skipped).
RECURSIVE FoundLocations(_, _)
FoundLocations(refs, index) ==
    IF refs = <<>> THEN <<>>
    ELSE (IF Head(refs) \in DOMAIN index THEN <<index[Head(refs)]>> ELSE <<>>)
         \o FoundLocations(Tail(refs), index)

\* region_counts over the refs and std::max_element: the map iterates in
\* insertion order and max_element keeps the first largest count, so the
\* result is the region with the largest count that was inserted first;
\* "" when no ref has a region.
MajorityRegion(refs, regions) ==
    LET known == { i \in 1..Len(refs) : refs[i] \in DOMAIN regions }
        count(code) == Cardinality({ i \in known : regions[refs[i]] = code })
        first(code) == CHOOSE i \in known :
                          /\ regions[refs[i]] = code
                          /\ \A j \in known : regions[refs[j]] = code => i <= j
        codes == { regions[refs[i]] : i \in known }
    IN IF codes = {} THEN ""
       ELSE CHOOSE c \in codes :
               \A d \in codes :
                   \/ count(c) > count(d)
                   \/ count(c) = count(d) /\ first(c) <= first(d)

(* ---- handlers ---- *)
PItem == p_input[p_pos]

PSkip ==
    /\ p_pos' = p_pos + 1
    /\ UNCHANGED <<p_input, p_pc, p_run, rng_, p_node_index, p_way_index,
                   node_regions_, way_regions_, relation_regions_,
                   region_codes_, node_queues_, way_queues_, relation_queues_,
                   csv_rows, first_csv_rows>>

\* SinglePassHandler::node
PlacesNode ==
    /\ p_pc = "stream"
    /\ p_pos <= Len(p_input)
    /\ PItem.type = "node"
    /\ IF \/ ~PItem.valid
          \/ match_category(PItem.tags) < 0
          \/ lookup_wgs84(PItem.x) = ""
       THEN PSkip
       ELSE LET category_idx == match_category(PItem.tags)
                region_code == lookup_wgs84(PItem.x)
            IN /\ p_node_index' = MapSet(p_node_index, PItem.id, PItem.x)
               /\ node_regions_' = MapSet(node_regions_, PItem.id, region_code)
               /\ region_codes_' = RegionCodesWith(region_codes_, region_code)
               /\ node_queues_' = Sampled(node_queues_, category_idx,
                                          region_code, PItem.id)
               /\ way_queues_' = Resized(way_queues_, region_code)
               /\ relation_queues_' = Resized(relation_queues_, region_code)
               /\ rng_' = [rng_ EXCEPT !.draws = @ + 1]
               /\ p_pos' = p_pos + 1
               /\ UNCHANGED <<p_input, p_pc, p_run, p_way_index, way_regions_,
                              relation_regions_, csv_rows, first_csv_rows>>
    /\ UNCHANGED notPlaces

\* SinglePassHandler::way
PlacesWay ==
    /\ p_pc = "stream"
    /\ p_pos <= Len(p_input)
    /\ PItem.type = "way"
    /\ LET node_locations == FoundLocations(PItem.refs, p_node_index)
       IN IF match_category(PItem.tags) < 0 \/ node_locations = <<>>
          THEN PSkip
          ELSE LET category_idx == match_category(PItem.tags)
                   centroid == compute_centroid(node_locations)
                   region_code ==
                       IF lookup_wgs84(centroid) # ""
                       THEN lookup_wgs84(centroid)
                       ELSE MajorityRegion(PItem.refs, node_regions_)
               IN   IF region_code = ""
                    THEN PSkip
                    ELSE /\ p_way_index' = MapSet(p_way_index, PItem.id, centroid)
                         /\ way_regions_' = MapSet(way_regions_, PItem.id, region_code)
                         /\ region_codes_' = RegionCodesWith(region_codes_, region_code)
                         /\ way_queues_' = Sampled(way_queues_, category_idx,
                                                   region_code, PItem.id)
                         /\ node_queues_' = Resized(node_queues_, region_code)
                         /\ relation_queues_' = Resized(relation_queues_, region_code)
                         /\ rng_' = [rng_ EXCEPT !.draws = @ + 1]
                         /\ p_pos' = p_pos + 1
                         /\ UNCHANGED <<p_input, p_pc, p_run, p_node_index,
                                        node_regions_, relation_regions_,
                                        csv_rows, first_csv_rows>>
    /\ UNCHANGED notPlaces

\* SinglePassHandler::relation
PlacesRelation ==
    /\ p_pc = "stream"
    /\ p_pos <= Len(p_input)
    /\ PItem.type = "relation"
    /\ LET way_centroids == FoundLocations(PItem.refs, p_way_index)
       IN IF match_category(PItem.tags) < 0 \/ way_centroids = <<>>
          THEN PSkip
          ELSE LET category_idx == match_category(PItem.tags)
                   centroid == compute_centroid(way_centroids)
                   region_code ==
                       IF lookup_wgs84(centroid) # ""
                       THEN lookup_wgs84(centroid)
                       ELSE MajorityRegion(PItem.refs, way_regions_)
               IN   IF region_code = ""
                    THEN PSkip
                    ELSE /\ relation_regions_' =
                                MapSet(relation_regions_, PItem.id, region_code)
                         /\ region_codes_' = RegionCodesWith(region_codes_, region_code)
                         /\ relation_queues_' = Sampled(relation_queues_, category_idx,
                                                        region_code, PItem.id)
                         /\ node_queues_' = Resized(node_queues_, region_code)
                         /\ way_queues_' = Resized(way_queues_, region_code)
                         /\ rng_' = [rng_ EXCEPT !.draws = @ + 1]
                         /\ p_pos' = p_pos + 1
                         /\ UNCHANGED <<p_input, p_pc, p_run, p_node_index,
                                        p_way_index, node_regions_, way_regions_,
                                        csv_rows, first_csv_rows>>
    /\ UNCHANGED notPlaces

\* Rows main() writes for one queue family: one row per queue item, with
\* the category name of the queue and the region recorded for the id.
CsvRowsOf(queues, regions, kind) ==
    { [id |-> e[2], category |-> categories_[c].name,
       region |-> regions[e[2]], kind |-> kind] :
        <<c, e>> \in
            UNION { {c} \X UNION Range(queues[c]) : c \in DOMAIN queues } }

\* main(): the input is exhausted; write the CSV from the three families.
PlacesWriteCsv ==
    /\ p_pc = "stream"
    /\ p_pos > Len(p_input)
    /\ csv_rows' = CsvRowsOf(node_queues_, node_regions_, "node")
                    \cup CsvRowsOf(way_queues_, way_regions_, "way")
                    \cup CsvRowsOf(relation_queues_, relation_regions_,
                                   "relation")
    /\ p_pc' = "done"
    /\ UNCHANGED <<p_input, p_pos, p_run, rng_, p_node_index, p_way_index,
                   node_regions_, way_regions_, relation_regions_,
                   region_codes_, node_queues_, way_queues_, relation_queues_,
                   first_csv_rows>>
    /\ UNCHANGED notPlaces

\* The extractor is run a second time on the same PBF, category
\* configuration and regions: main() constructs a new handler.
PlacesRerun ==
    /\ p_pc = "done"
    /\ p_run = 1
    /\ p_run' = 2
    /\ first_csv_rows' = csv_rows
    /\ HandlerConstructed
    /\ UNCHANGED p_input
    /\ UNCHANGED notPlaces

PlacesNext ==
    \/ PlacesNode
    \/ PlacesWay
    \/ PlacesRelation
    \/ PlacesWriteCsv
    \/ PlacesRerun

(* ---- claims about the places extractor ---- *)
Categories == 1..Len(categories_)

\* entries the three queue families retain for category c and the region
\* with index r
Retained(c, r) ==
    IF r \in DOMAIN node_queues_[c]
    THEN Cardinality(node_queues_[c][r]) + Cardinality(way_queues_[c][r])
         + Cardinality(relation_queues_[c][r])
    ELSE 0

RowsFor(rows, c, code) ==
    { row \in rows : row.category = categories_[c].name /\ row.region = code }

\* C6: for every category c and region r, after any sequence of matched
\* nodes, ways and relations has been streamed, the number of entries
\* retained for (c, r), and the number of rows written to the places CSV
\* for (c, r), is at most max_per_region(c).
C6_RetainedAtMostMaxPerRegion ==
    p_pc \in {"stream", "done"} =>
        \A c \in Categories :
            /\ \A r \in 1..Len(region_codes_) :
                  Retained(c, r) <= categories_[c].max_per_region
            /\ p_pc = "done" =>
                  \A r \in 1..Len(region_codes_) :
                      Cardinality(RowsFor(csv_rows, c, region_codes_[r]))
                          <= categories_[c].max_per_region

\* Items of the input the handler of the current run has already received.
PlacesHandled ==
    IF p_pc = "stream" THEN SubSeq(p_input, 1, p_pos - 1)
    ELSE IF p_pc = "done" THEN p_input
    ELSE <<>>

\* The node with the given id has a valid location in the input.
ValidInputNode(id) ==
    \E i \in 1..Len(p_input) :
        p_input[i].type = "node" /\ p_input[i].id = id /\ p_input[i].valid

InputNodeX(id) ==
    (CHOOSE item \in Range(p_input) : item.type = "node" /\ item.id = id).x

\* A way that matches a category, whose member nodes all have valid
\* locations in the input and whose centroid lies inside a region.
LocatedMatchingWay(w) ==
    /\ w.type = "way"
    /\ match_category(w.tags) >= 0
    /\ \A k \in 1..Len(w.refs) : ValidInputNode(w.refs[k])
    /\ lookup_wgs84(compute_centroid(
           [k \in 1..Len(w.refs) |-> InputNodeX(w.refs[k])])) # ""

\* A matching relation with at least one such way as outer member.
RelationOfLocatedWay(r) ==
    /\ r.type = "relation"
    /\ match_category(r.tags) >= 0
    /\ \E k \in 1..Len(r.refs) : \E w \in Range(p_input) :
           w.type = "way" /\ w.id = r.refs[k] /\ LocatedMatchingWay(w)

\* C30: every matching way whose member nodes have valid locations and
\* whose centroid lies in a region has been offered to its reservoir once
\* the handler has received it, whatever tags its member nodes carry; so
\* has every matching relation with such an outer way.  (An offered way is
\* recorded in the way index, an offered relation in relation_regions_.)
C30_LocatedMatchingWaysAreOffered ==
    \A i \in 1..Len(PlacesHandled) :
        /\ LocatedMatchingWay(PlacesHandled[i])
           => PlacesHandled[i].id \in DOMAIN p_way_index
        /\ RelationOfLocatedWay(PlacesHandled[i])
           => PlacesHandled[i].id \in DOMAIN relation_regions_

\* C7: two runs of the place extractor on the same PBF, category
\* configuration and regions select the same set of places for every
\* (category, region).
C7_TwoRunsSelectSamePlaces ==
    (p_pc = "done" /\ p_run = 2) =>
        \A c \in Categories : \A i \in 1..Len(regions_) :
            RowsFor(csv_rows, c, regions_[i].nuts_id)
                = RowsFor(first_csv_rows, c, regions_[i].nuts_id)

(***************************************************************************)
(* routing_server/src/RoutingEngine.cpp: address table and its queries     *)
(*                                                                         *)
(* Addresses lie on a line; a position is an integer number of metres.     *)
(* The address table keeps positions in double precision; the address      *)
(* index and its queries take them in single precision, which represents   *)
(* every FloatStep-th position only.                                       *)
(***************************************************************************)
MaxAddresses == 3      \* at most this many rows in the address CSV
MaxNumber == 5         \* number of a sample request is 1..MaxNumber
MaxPageSize == 4       \* page_size of a sample request is 1..MaxPageSize
MaxSampleSeed == 1     \* seed of a request is 0..MaxSampleSeed

\* unsigned arithmetic is modulo UIntMod (2^32 in the build, scaled down)
UIntMod == 16

FloatStep == 2

\* static_cast<float>: the nearest representable position
ToFloat(x) == ((x + FloatStep \div 2) \div FloatStep) * FloatStep

APositions == {0, 999, 1500, 3000}

Address(id, pos) == [id |-> id, pos |-> pos]

NoAddrIndex == [present |-> FALSE, pos |-> <<>>]

\* RoutingEngine::loadAddresses: fills addresses_ (ids are the indices)
\* and builds addr_index_ from the single-precision positions, if any.
LoadedAddresses(positions) ==
    [i \in 1..Len(positions) |-> Address(i - 1, positions[i])]

BuiltAddrIndex(positions) ==
    IF positions = <<>> THEN NoAddrIndex
    ELSE [present |-> TRUE,
          pos |-> [i \in 1..Len(positions) |-> ToFloat(positions[i])]]

AddressIdle ==
    /\ addresses_ = <<>>
    /\ addr_index_ = NoAddrIndex
    /\ s_query = <<>>
    /\ s_pages = <<>>
    /\ u_query = <<>>
    /\ u_result = <<>>

AddressesLoaded ==
    \E positions \in SeqsUpTo(APositions, MaxAddresses) :
        /\ addresses_ = LoadedAddresses(positions)
        /\ addr_index_ = BuiltAddrIndex(positions)

(* ---- getAddressSample ---- *)
Min2(a, b) == IF a <= b THEN a ELSE b

\* the n-th value std::mt19937(seed) yields for a range of m values
RandBelow(seed, n, m) == (seed * 7 + n * 3 + 1) % m

Swap(seq, i, j) == [seq EXCEPT ![i] = seq[j], ![j] = seq[i]]

\* std::shuffle(first, last, gen) from position i (1-based) on: each
\* element is swapped with one at or before it, chosen by the generator.
RECURSIVE ShuffleFrom(_, _, _)
ShuffleFrom(seq, i, seed) ==
    IF i > Len(seq) THEN seq
    ELSE ShuffleFrom(Swap(seq, i, 1 + RandBelow(seed, i, i)), i + 1, seed)

\* std::iota followed by std::shuffle with std::mt19937(seed)
ShuffledIndices(size, seed) == ShuffleFrom([i \in 1..size |-> i - 1], 2, seed)

\* std::sort of distinct indices
RECURSIVE SortedSeq(_)
SortedSeq(set) ==
    IF set = {} THEN <<>>
    ELSE LET least == CHOOSE x \in set : \A y \in set : x <= y
         IN <<least>> \o SortedSeq(set \ {least})

\* indices after shuffle, resize(number) and sort
SampleIndices(number, seed) ==
    LET indices == ShuffledIndices(Len(addresses_), seed)
        kept == IF number < Len(indices) THEN SubSeq(indices, 1, number)
                ELSE indices
    IN SortedSeq(Range(kept))

\* RoutingEngine::getAddressSample
getAddressSample(number, seed, page_size, page_num) ==
    LET start_index == (page_num * page_size) % UIntMod
        end_index == Min2((start_index + page_size) % UIntMod, number)
        indices == SampleIndices(number, seed)
        last == Min2(end_index, Len(indices))
    IN IF addresses_ = <<>> THEN <<>>
       ELSE IF start_index >= number THEN <<>>
       ELSE [i \in 1..(IF last > start_index THEN last - start_index ELSE 0) |->
                addresses_[indices[start_index + i] + 1]]

SampleQueries ==
    [number : 1..MaxNumber, seed : 0..MaxSampleSeed, page_size : 1..MaxPageSize]

\* page_num is any unsigned value
PageNums == 0..(UIntMod - 1)

SampleInit ==
    /\ AddressesLoaded
    /\ s_query \in SampleQueries
    /\ s_pages = <<>>
    /\ u_query = <<>>
    /\ u_result = <<>>

\* The client requests the pages of its sample in turn:
\* s_pages[k + 1] is the result for page_num = k.
AddressSamplePage ==
    /\ s_query # <<>>
    /\ Len(s_pages) \in PageNums
    /\ s_pages' = Append(s_pages,
                         getAddressSample(s_query.number, s_query.seed,
                                          s_query.page_size, Len(s_pages)))
    /\ UNCHANGED <<addresses_, addr_index_, s_query, u_query, u_result>>
    /\ UNCHANGED notAddress

\* The client turns to another sample.
AddressSampleNewQuery ==
    /\ s_query # <<>>
    /\ s_pages # <<>>
    /\ \E q \in SampleQueries : s_query' = q
    /\ s_pages' = <<>>
    /\ UNCHANGED <<addresses_, addr_index_, u_query, u_result>>
    /\ UNCHANGED notAddress

SampleNext == AddressSamplePage \/ AddressSampleNewQuery

(* ---- claims about getAddressSample ---- *)
CeilDiv(a, b) == (a + b - 1) \div b

RECURSIVE Concat(_)
Concat(seqs) == IF seqs = <<>> THEN <<>> ELSE Head(seqs) \o Concat(Tail(seqs))

\* the deterministic sample of size min(n, N) for the seed, ascending
DeterministicSample(number, seed) ==
    LET indices == SampleIndices(number, seed)
    IN [i \in 1..Len(indices) |-> addresses_[indices[i] + 1]]

PagesOfSample == CeilDiv(s_query.number, s_query.page_size)

\* C8: concatenating the results of getAddressSample(n, s, p, k) for
\* k = 0 .. ceil(n/p)-1 yields exactly the deterministic sample of size
\* min(n, N) for seed s, in ascending index order, with no address repeated
\* or missing across pages; any later page is empty.
C8_PagesConcatenateToSample ==
    (s_query # <<>> /\ Len(s_pages) >= PagesOfSample) =>
        /\ Concat(SubSeq(s_pages, 1, PagesOfSample))
              = DeterministicSample(s_query.number, s_query.seed)
        /\ Len(DeterministicSample(s_query.number, s_query.seed))
              = Min2(s_query.number, Len(addresses_))
        /\ \A k \in (PagesOfSample + 1)..Len(s_pages) : s_pages[k] = <<>>

(* ---- getUniformRandomAddressInAnnulus ---- *)
NoAddress == Address(-1, -1)

\* RoutingKit::GeoPositionToNode::find_all_nodes_within_radius: the indexed
\* positions within radius of the query position, with their distances,
\* by ascending id.
find_all_nodes_within_radius(center, radius) ==
    LET within == { i \in 1..Len(addr_index_.pos) :
                       Abs(addr_index_.pos[i] - center) <= radius }
        ids == SortedSeq({ i - 1 : i \in within })
    IN [k \in 1..Len(ids) |->
           [id |-> ids[k],
            distance |-> Abs(addr_index_.pos[ids[k] + 1] - center)]]

\* the filter of the candidates by the lower bound
InAnnulus_NoLowerBound(candidate, min_distance_m) ==
    candidate.id < Len(addresses_)

InAnnulus(candidate, min_distance_m) ==
    candidate.distance >= min_distance_m /\ candidate.id < Len(addresses_)

\* std::uniform_int_distribution<size_t>(0, size - 1) on std::mt19937(seed)
UniformIndex(seed, size) == RandBelow(seed, 0, size)

\* RoutingEngine::getUniformRandomAddressInAnnulus; NoAddress is nullopt.
getUniformRandomAddressInAnnulus(center, min_distance_km, max_distance_km, seed) ==
    LET min_distance_m == min_distance_km * 1000
        max_distance_m == max_distance_km * 1000
        candidates == find_all_nodes_within_radius(ToFloat(center), max_distance_m)
        valid_indices == SelectSeq(candidates,
                                   LAMBDA c : InAnnulus(c, min_distance_m))
    IN IF addresses_ = <<>> \/ ~addr_index_.present THEN NoAddress
       ELSE IF min_distance_m < 0 \/ max_distance_m <= min_distance_m
       THEN NoAddress
       ELSE IF valid_indices = <<>> THEN NoAddress
       ELSE addresses_[valid_indices[1 + UniformIndex(seed, Len(valid_indices))].id + 1]

ACenters == {0, 501}
AMinKm == {-1, 0, 1, 2}
AMaxKm == {0, 1, 2, 3}

AnnulusQueries ==
    [center : ACenters, min_km : AMinKm, max_km : AMaxKm,
     seed : 0..MaxSampleSeed]

AnnulusInit ==
    /\ AddressesLoaded
    /\ s_query = <<>>
    /\ s_pages = <<>>
    /\ u_query = <<>>
    /\ u_result = <<>>

AnnulusRequest ==
    /\ \E q \in AnnulusQueries :
          /\ u_query' = q
          /\ u_result' = getUniformRandomAddressInAnnulus(q.center, q.min_km,
                                                          q.max_km, q.seed)
    /\ UNCHANGED <<addresses_, addr_index_, s_query, s_pages>>
    /\ UNCHANGED notAddress

AnnulusNext == AnnulusRequest

(* ---- claims about getUniformRandomAddressInAnnulus ---- *)
\* distance from the centre of the query to a loaded address
TrueDistance(a) == Abs(a.pos - u_query.center)

\* the distance the address index reports for a loaded address
IndexDistance(a) == Abs(addr_index_.pos[a.id + 1] - ToFloat(u_query.center))

ValidAnnulus == u_query.min_km >= 0 /\ u_query.max_km > u_query.min_km

\* C9 as claimed: whenever getUniformRandomAddressInAnnulus(center, min_km,
\* max_km, seed) returns an address a, the distance from center to a
\* satisfies min_km*1000 <= distance <= max_km*1000; it returns none
\* exactly when no loaded address lies in that annulus.
C9_Original ==
    u_query # <<>> =>
        /\ u_result # NoAddress =>
              /\ u_query.min_km * 1000 <= TrueDistance(u_result)
              /\ TrueDistance(u_result) <= u_query.max_km * 1000
        /\ u_result = NoAddress <=>
              ~\E i \in 1..Len(addresses_) :
                  /\ u_query.min_km * 1000 <= TrueDistance(addresses_[i])
                  /\ TrueDistance(addresses_[i]) <= u_query.max_km * 1000

\* C9 amended: whenever an address a is returned, it is a loaded address
\* and the distance the address index reports for it (single precision)
\* satisfies min_km*1000 <= distance <= max_km*1000; for valid parameters
\* (min_km >= 0 and max_km > min_km) none is returned exactly when the
\* index reports no loaded address at a distance in that range; for
\* invalid parameters none is returned.
C9_ReturnedAddressInAnnulus ==
    u_query # <<>> =>
        /\ u_result # NoAddress =>
              /\ u_result \in Range(addresses_)
              /\ u_query.min_km * 1000 <= IndexDistance(u_result)
              /\ IndexDistance(u_result) <= u_query.max_km * 1000
        /\ ValidAnnulus =>
              (u_result = NoAddress <=>
                  ~\E i \in 1..Len(addresses_) :
                      /\ u_query.min_km * 1000 <= IndexDistance(addresses_[i])
                      /\ IndexDistance(addresses_[i]) <= u_query.max_km * 1000)
        /\ ~ValidAnnulus => u_result = NoAddress

\* An address is returned from an annulus with a positive inner radius
\* although another loaded address lies inside the inner disc.
C9_Witness ==
    /\ u_query # <<>>
    /\ u_result # NoAddress
    /\ u_query.min_km > 0
    /\ \E i \in 1..Len(addresses_) :
          IndexDistance(addresses_[i]) < u_query.min_km * 1000

(***************************************************************************)
(* routing_server: request handlers running concurrently                   *)
(*                                                                         *)
(* main.cpp serves /api/v1/shortest_path with one query object captured    *)
(* by reference; RoutingEngine::computeShortestPath creates its query      *)
(* object per call.  The road graph is three nodes on a line.              *)
(***************************************************************************)
MaxThreads == 2        \* handler threads of the HTTP server
MaxRequests == 2       \* requests accepted in a run

HThreads == 1..MaxThreads

\* RoutingKit::invalid_id and RoutingKit::inf_weight
invalid_id == -1
inf_weight == 2147483647

HNodes == 0..2

\* graph.latitude / graph.longitude as a position in metres
NodePosition == [n \in HNodes |-> n * 3000]

\* graph.travel_time of the arc between node n and node n + 1
travel_time == [n \in 0..1 |-> (n + 1) * 10]

\* arc ids: 2n is n -> n+1 and 2n+1 is n+1 -> n
ArcId(a, b) == IF b = a + 1 THEN 2 * a ELSE 2 * b + 1

ArcTravelTime(arc) == travel_time[arc \div 2]

\* GeoPositionToNode::find_nearest_neighbor_within_radius(pos, 1000).id
find_nearest_neighbor_within_radius(pos, radius) ==
    IF \E n \in HNodes : Abs(NodePosition[n] - pos) <= radius
    THEN CHOOSE n \in HNodes :
            /\ Abs(NodePosition[n] - pos) <= radius
            /\ \A m \in HNodes :
                  Abs(NodePosition[n] - pos) <= Abs(NodePosition[m] - pos)
    ELSE invalid_id

(* ---- RoutingKit::ContractionHierarchyQuery ---- *)
RECURSIVE ShortestNodePath(_, _)
ShortestNodePath(from, to) ==
    IF from = to THEN <<from>>
    ELSE <<from>> \o ShortestNodePath(IF from < to THEN from + 1 ELSE from - 1, to)

ArcsOf(node_path) ==
    [i \in 1..(Len(node_path) - 1) |-> ArcId(node_path[i], node_path[i + 1])]

RECURSIVE SumTravelTime(_)
SumTravelTime(arc_path) ==
    IF arc_path = <<>> THEN 0
    ELSE ArcTravelTime(Head(arc_path)) + SumTravelTime(Tail(arc_path))

\* a query object right after construction or reset()
FreshQuery ==
    [source |-> invalid_id, target |-> invalid_id, distance |-> inf_weight,
     node_path |-> <<>>, arc_path |-> <<>>]

reset(q) == FreshQuery

add_source(q, s) == [q EXCEPT !.source = s]

add_target(q, t) == [q EXCEPT !.target = t]

\* run() with a source and a target pinned
run(q) ==
    [q EXCEPT !.distance = SumTravelTime(ArcsOf(ShortestNodePath(q.source, q.target))),
              !.node_path = ShortestNodePath(q.source, q.target),
              !.arc_path = ArcsOf(ShortestNodePath(q.source, q.target))]

\* The outcomes of run(): with both ends pinned the route; otherwise the
\* call is outside the contract of the query object and leaves any result.
RunOutcomes(q) ==
    IF q.source # invalid_id /\ q.target # invalid_id THEN {run(q)}
    ELSE { [q EXCEPT !.distance = r.distance, !.node_path = r.node_path,
                     !.arc_path = r.arc_path] :
             r \in { run(add_target(add_source(FreshQuery, a), b)) :
                       a \in HNodes, b \in HNodes } \cup {FreshQuery} }

(* ---- the responses ---- *)
ErrorResponse(status) == [status |-> status, body |-> <<>>]

\* main.cpp: the JSON of a route; query_time_us is left out
PathPoints(from, to, distance, node_path, arc_path) ==
    IF Len(node_path) <= 1
    THEN << [node_id |-> from, time_ms |-> 0],
            [node_id |-> to, time_ms |-> distance] >>
    ELSE [i \in 1..Len(node_path) |->
             [node_id |-> node_path[i],
              time_ms |-> IF i - 1 <= Len(arc_path)
                          THEN SumTravelTime(SubSeq(arc_path, 1, i - 1))
                          ELSE 0]]

RouteResponse(from, to, distance, node_path, arc_path) ==
    [status |-> 200,
     body |-> << from, to, distance,
                 PathPoints(from, to, distance, node_path, arc_path) >>]

\* RoutingEngine::computeShortestPath with its own query object
computeShortestPath(from_node, to_node) ==
    LET ch_geo_query ==
            run(add_target(add_source(reset(FreshQuery), from_node), to_node))
    IN IF from_node \notin HNodes \/ to_node \notin HNodes
       THEN [success |-> FALSE, distance |-> inf_weight, node_path |-> <<>>,
             arc_path |-> <<>>]
       ELSE IF from_node = to_node
       THEN [success |-> TRUE, distance |-> 0, node_path |-> <<from_node>>,
             arc_path |-> <<>>]
       ELSE [success |-> ch_geo_query.distance # inf_weight
                         /\ ch_geo_query.node_path # <<>>,
             distance |-> ch_geo_query.distance,
             node_path |-> ch_geo_query.node_path,
             arc_path |-> ch_geo_query.arc_path]

(* ---- state ---- *)
HPositions == {0, 6400, 9000}

HRequests == [from : HPositions, to : HPositions]

NoRequest == [from |-> -1, to |-> -1]

NoLocals == [from |-> invalid_id, to |-> invalid_id, distance |-> inf_weight,
             node_path |-> <<>>, arc_path |-> <<>>]

NoResponse == ErrorResponse(0)

HttpIdle ==
    /\ h_server = "none"
    /\ ch_query = FreshQuery
    /\ h_pc = <<>>
    /\ h_req = <<>>
    /\ h_local = <<>>
    /\ h_resp = <<>>
    /\ h_served = 0

HttpInit ==
    /\ h_server \in {"main", "engine"}
    /\ ch_query = FreshQuery
    /\ h_pc = [t \in HThreads |-> "idle"]
    /\ h_req = [t \in HThreads |-> NoRequest]
    /\ h_local = [t \in HThreads |-> NoLocals]
    /\ h_resp = [t \in HThreads |-> NoResponse]
    /\ h_served = 0

(* ---- handlers ---- *)
\* A thread takes a request and maps both positions to nodes; a position
\* with no node within 1000 m is answered with 404.
HttpAccept(t) ==
    /\ h_pc[t] = "idle"
    /\ h_served < MaxRequests
    /\ \E req \in HRequests :
          LET from == find_nearest_neighbor_within_radius(req.from, 1000)
              to == find_nearest_neighbor_within_radius(req.to, 1000)
          IN /\ h_req' = [h_req EXCEPT ![t] = req]
             /\ h_local' = [h_local EXCEPT ![t] =
                               [NoLocals EXCEPT !.from = from, !.to = to]]
             /\ IF from = invalid_id \/ to = invalid_id
                THEN /\ h_resp' = [h_resp EXCEPT ![t] = ErrorResponse(404)]
                     /\ h_pc' = [h_pc EXCEPT ![t] = "done"]
                ELSE /\ h_resp' = [h_resp EXCEPT ![t] = NoResponse]
                     /\ h_pc' = [h_pc EXCEPT ![t] =
                                    IF h_server = "main" THEN "reset"
                                    ELSE "compute"]
    /\ h_served' = h_served + 1
    /\ UNCHANGED <<h_server, ch_query>>
    /\ UNCHANGED notHttp

\* main.cpp: ch_query.reset()
MainReset(t) ==
    /\ h_pc[t] = "reset"
    /\ ch_query' = reset(ch_query)
    /\ h_pc' = [h_pc EXCEPT ![t] = "add_source"]
    /\ UNCHANGED <<h_server, h_req, h_local, h_resp, h_served>>
    /\ UNCHANGED notHttp

\* main.cpp: .add_source(from)
MainAddSource(t) ==
    /\ h_pc[t] = "add_source"
    /\ ch_query' = add_source(ch_query, h_local[t].from)
    /\ h_pc' = [h_pc EXCEPT ![t] = "add_target"]
    /\ UNCHANGED <<h_server, h_req, h_local, h_resp, h_served>>
    /\ UNCHANGED notHttp

\* main.cpp: .add_target(to)
MainAddTarget(t) ==
    /\ h_pc[t] = "add_target"
    /\ ch_query' = add_target(ch_query, h_local[t].to)
    /\ h_pc' = [h_pc EXCEPT ![t] = "run"]
    /\ UNCHANGED <<h_server, h_req, h_local, h_resp, h_served>>
    /\ UNCHANGED notHttp

\* main.cpp: .run()
MainRun(t) ==
    /\ h_pc[t] = "run"
    /\ ch_query' \in RunOutcomes(ch_query)
    /\ h_pc' = [h_pc EXCEPT ![t] = "get_distance"]
    /\ UNCHANGED <<h_server, h_req, h_local, h_resp, h_served>>
    /\ UNCHANGED notHttp

\* main.cpp: auto distance = ch_query.get_distance()
MainGetDistance(t) ==
    /\ h_pc[t] = "get_distance"
    /\ h_local' = [h_local EXCEPT ![t].distance = ch_query.distance]
    /\ h_pc' = [h_pc EXCEPT ![t] = "get_node_path"]
    /\ UNCHANGED <<h_server, ch_query, h_req, h_resp, h_served>>
    /\ UNCHANGED notHttp

\* main.cpp: auto node_path = ch_query.get_node_path()
MainGetNodePath(t) ==
    /\ h_pc[t] = "get_node_path"
    /\ h_local' = [h_local EXCEPT ![t].node_path = ch_query.node_path]
    /\ h_pc' = [h_pc EXCEPT ![t] = "get_arc_path"]
    /\ UNCHANGED <<h_server, ch_query, h_req, h_resp, h_served>>
    /\ UNCHANGED notHttp

\* main.cpp: auto arc_path = ch_query.get_arc_path() and the JSON response
MainGetArcPath(t) ==
    /\ h_pc[t] = "get_arc_path"
    /\ h_local' = [h_local EXCEPT ![t].arc_path = ch_query.arc_path]
    /\ h_resp' = [h_resp EXCEPT ![t] =
                     RouteResponse(h_local[t].from, h_local[t].to,
                                   h_local[t].distance, h_local[t].node_path,
                                   ch_query.arc_path)]
    /\ h_pc' = [h_pc EXCEPT ![t] = "done"]
    /\ UNCHANGED <<h_server, ch_query, h_req, h_served>>
    /\ UNCHANGED notHttp

\* RoutingEngine::computeShortestPath, called from a handler
EngineCompute(t) ==
    /\ h_pc[t] = "compute"
    /\ LET result == computeShortestPath(h_local[t].from, h_local[t].to)
       IN /\ h_local' = [h_local EXCEPT ![t].distance = result.distance,
                                        ![t].node_path = result.node_path,
                                        ![t].arc_path = result.arc_path]
          /\ h_resp' = [h_resp EXCEPT ![t] =
                           RouteResponse(h_local[t].from, h_local[t].to,
                                         result.distance, result.node_path,
                                         result.arc_path)]
    /\ h_pc' = [h_pc EXCEPT ![t] = "done"]
    /\ UNCHANGED <<h_server, ch_query, h_req, h_served>>
    /\ UNCHANGED notHttp

\* The response is sent; the thread is free for the next request.
HttpRespond(t) ==
    /\ h_pc[t] = "done"
    /\ h_pc' = [h_pc EXCEPT ![t] = "idle"]
    /\ h_req' = [h_req EXCEPT ![t] = NoRequest]
    /\ h_local' = [h_local EXCEPT ![t] = NoLocals]
    /\ h_resp' = [h_resp EXCEPT ![t] = NoResponse]
    /\ UNCHANGED <<h_server, ch_query, h_served>>
    /\ UNCHANGED notHttp

HttpNext ==
    \E t \in HThreads :
        \/ HttpAccept(t)
        \/ MainReset(t)
        \/ MainAddSource(t)
        \/ MainAddTarget(t)
        \/ MainRun(t)
        \/ MainGetDistance(t)
        \/ MainGetNodePath(t)
        \/ MainGetArcPath(t)
        \/ EngineCompute(t)
        \/ HttpRespond(t)

(* ---- claims about the request handlers ---- *)
\* the response a request gets when it is handled alone
AloneResponse(req) ==
    LET from == find_nearest_neighbor_within_radius(req.from, 1000)
        to == find_nearest_neighbor_within_radius(req.to, 1000)
        q == run(add_target(add_source(FreshQuery, from), to))
    IN IF from = invalid_id \/ to = invalid_id THEN ErrorResponse(404)
       ELSE RouteResponse(from, to, q.distance, q.node_path, q.arc_path)

\* C10: under any interleaving of concurrently handled HTTP requests, no
\* request handler writes to state shared between requests (here the CH
\* query object), so the response to each request equals the response the
\* same request gets when handled alone.
C10_HandlersDoNotWriteSharedState ==
    h_server # "none" =>
        /\ ch_query = FreshQuery
        /\ \A t \in HThreads :
              h_pc[t] = "done" => h_resp[t] = AloneResponse(h_req[t])

(***************************************************************************)
(* routing_server: RoutingEngine route queries and the ApiHandlers of      *)
(* /api/v1/shortest_path and /api/v1/complete_job_route.                   *)
(* Coordinates are positions on a line in units of 1/CoordPerM metre, so   *)
(* that a walking distance (a double) can have a fraction that the casts   *)
(* to unsigned cut off.  Times are in milliseconds.                        *)
(***************************************************************************)
MaxMultiplier == 3     \* largest speed_multiplier numerator (over MultDen)

CoordPerM == 2         \* coordinate units per metre
MultDen == 2           \* speed_multiplier is a multiple of 1/MultDen
SnapRadius == 1000     \* findNearestNode: max_radius = 1000

\* graph_: nodes 0 - 1 - 2 on a road; nodes 3 - 4 on a road no other road
\* meets, whose way has speed 0
RNodes == 0..4

\* graph_.latitude / graph_.longitude, in metres
RNodePos(n) == IF n >= 3 THEN 20000 + (n - 3) * 3000 ELSE n * 3000


\* graph_.geo_distance[arc], graph_.way[arc], way_speed_[way]
geo_distance(arc) == 3000
way(arc) == arc \div 2
way_speed_(w) == IF w = 0 THEN 50 ELSE IF w = 1 THEN 100 ELSE 0

\* RoutingEngine::haversineDistance between a coordinate and a node, in
\* coordinate units
haversineDistance(pos, n) == Abs(pos - RNodePos(n) * CoordPerM)

\* static_cast<unsigned>(distance in metres)
ToUnsigned(dist) == dist \div CoordPerM

\* static_cast<unsigned>(distance * 1000.0 / 1.67)
WalkingTimeMs(dist) == (dist * 100000) \div (167 * CoordPerM)

\* static_cast<unsigned>(time_ms * speed_multiplier)
TimesMultiplier(time_ms, num) == (time_ms * num) \div MultDen

\* findNearestNode as it would be without the radius
findNearestNode_AnyDistance(pos) ==
    CHOOSE n \in RNodes :
        \A m \in RNodes : haversineDistance(pos, n) <= haversineDistance(pos, m)

\* RoutingEngine::findNearestNode
findNearestNode(pos) ==
    IF \E n \in RNodes : haversineDistance(pos, n) <= SnapRadius * CoordPerM
    THEN CHOOSE n \in RNodes :
            /\ haversineDistance(pos, n) <= SnapRadius * CoordPerM
            /\ \A m \in RNodes : haversineDistance(pos, n) <= haversineDistance(pos, m)
    ELSE invalid_id

\* RoutingEngine::isValidNode
isValidNode(n) == n \in RNodes /\ n # invalid_id

\* (distance_m * 3600ULL * 1000ULL) / (effective_speed_kmh * 1000ULL)
ArcTimeMs(arc, effective_speed_kmh) ==
    IF effective_speed_kmh > 0
    THEN (geo_distance(arc) * 3600) \div effective_speed_kmh
    ELSE 0

RECURSIVE SumGeoDistance(_)
SumGeoDistance(arc_path) ==
    IF arc_path = <<>> THEN 0
    ELSE geo_distance(Head(arc_path)) + SumGeoDistance(Tail(arc_path))

\* ch_geo_query.reset().add_source(from).add_target(to).run(): distance,
\* node path and arc path; no path joins the two roads
ch_geo_query(from, to) ==
    IF (from >= 3) # (to >= 3)
    THEN [distance |-> IF from = to THEN 0 ELSE inf_weight,
          node_path |-> IF from = to THEN <<from>> ELSE <<>>,
          arc_path |-> <<>>]
    ELSE [distance |-> SumGeoDistance(ArcsOf(ShortestNodePath(from, to))),
          node_path |-> ShortestNodePath(from, to),
          arc_path |-> ArcsOf(ShortestNodePath(from, to))]

\* a RoutingResult that reports no route
FailedResult(from_node, to_node) ==
    [source_node |-> from_node, target_node |-> to_node, success |-> FALSE,
     total_travel_time_ms |-> inf_weight, total_geo_distance_m |-> inf_weight,
     node_path |-> <<>>, arc_path |-> <<>>,
     start_walking_distance |-> 0, end_walking_distance |-> 0]

RECURSIVE SumArcTimes(_, _)
SumArcTimes(arc_path, max_speed_kmh) ==
    IF arc_path = <<>> THEN 0
    ELSE ArcTimeMs(Head(arc_path), Min2(way_speed_(way(Head(arc_path))), max_speed_kmh))
         + SumArcTimes(Tail(arc_path), max_speed_kmh)

\* RoutingEngine::recalculateTotalTravelTime
recalculateTotalTravelTime(result, max_speed_kmh) ==
    IF ~result.success \/ result.arc_path = <<>> THEN 0
    ELSE (IF result.start_walking_distance > 0
          THEN WalkingTimeMs(result.start_walking_distance) ELSE 0)
         + (IF result.end_walking_distance > 0
            THEN WalkingTimeMs(result.end_walking_distance) ELSE 0)
         + SumArcTimes(result.arc_path, max_speed_kmh)

\* RoutingEngine::computeShortestPath on the geo-distance hierarchy
computeShortestPathGeo(from_node, to_node) ==
    LET q == ch_geo_query(from_node, to_node)
        found == [FailedResult(from_node, to_node) EXCEPT
                     !.total_geo_distance_m = q.distance,
                     !.node_path = q.node_path,
                     !.arc_path = q.arc_path,
                     !.success = q.distance # inf_weight /\ q.node_path # <<>>]
    IN IF ~isValidNode(from_node) \/ ~isValidNode(to_node)
       THEN FailedResult(from_node, to_node)
       ELSE IF from_node = to_node
       THEN [FailedResult(from_node, to_node) EXCEPT
                !.total_travel_time_ms = 0, !.total_geo_distance_m = 0,
                !.node_path = <<from_node>>, !.success = TRUE]
       ELSE [found EXCEPT
                !.total_travel_time_ms =
                    IF q.distance # inf_weight /\ q.arc_path # <<>>
                    THEN recalculateTotalTravelTime(found, 300)
                    ELSE q.distance]

\* RoutingEngine::computeShortestPathFromCoordinates
computeShortestPathFromCoordinates(from_pos, to_pos) ==
    LET from_node == findNearestNode(from_pos)
        to_node == findNearestNode(to_pos)
        start_walking_distance == haversineDistance(from_pos, from_node)
        end_walking_distance == haversineDistance(to_pos, to_node)
        start_walking_time_ms == WalkingTimeMs(start_walking_distance)
        end_walking_time_ms == WalkingTimeMs(end_walking_distance)
        node_result == computeShortestPathGeo(from_node, to_node)
    IN IF from_node = invalid_id \/ to_node = invalid_id
       THEN FailedResult(invalid_id, invalid_id)
       ELSE IF from_node = to_node
       THEN [source_node |-> from_node, target_node |-> to_node,
             success |-> TRUE,
             total_travel_time_ms |-> start_walking_time_ms + end_walking_time_ms,
             total_geo_distance_m |->
                 ToUnsigned(start_walking_distance + end_walking_distance),
             node_path |-> <<from_node>>, arc_path |-> <<>>,
             start_walking_distance |-> start_walking_distance,
             end_walking_distance |-> end_walking_distance]
       ELSE IF ~node_result.success THEN node_result
       ELSE [node_result EXCEPT
                !.total_travel_time_ms =
                    @ + start_walking_time_ms + end_walking_time_ms,
                !.total_geo_distance_m =
                    @ + ToUnsigned(start_walking_distance + end_walking_distance),
                !.start_walking_distance = start_walking_distance,
                !.end_walking_distance = end_walking_distance]

\* a RoutePoint; the coordinates are left out
RoutePoint(node_id, time_ms, distance_m, max_speed_kmh, is_walking_segment) ==
    [node_id |-> node_id, time_ms |-> time_ms, distance_m |-> distance_m,
     max_speed_kmh |-> max_speed_kmh, is_walking_segment |-> is_walking_segment]

\* std::optional<unsigned>
nullopt == [has_value |-> FALSE, value |-> 0]
Some(v) == [has_value |-> TRUE, value |-> v]

EffectiveSpeed(arc, max_speed_kmh) ==
    IF max_speed_kmh.has_value
    THEN Min2(way_speed_(way(arc)), max_speed_kmh.value)
    ELSE way_speed_(way(arc))

RECURSIVE CumulativeTime(_, _, _)
CumulativeTime(arc_path, i, max_speed_kmh) ==
    IF i = 0 THEN 0
    ELSE CumulativeTime(arc_path, i - 1, max_speed_kmh)
         + ArcTimeMs(arc_path[i], EffectiveSpeed(arc_path[i], max_speed_kmh))

\* RoutingEngine::processPathIntoPoints
processPathIntoPoints(result, max_speed_kmh) ==
    LET has_start_walking == result.start_walking_distance > 0
        has_end_walking == result.end_walking_distance > 0
        start_walking_time ==
            IF has_start_walking THEN WalkingTimeMs(result.start_walking_distance) ELSE 0
        start_walking_dist ==
            IF has_start_walking THEN ToUnsigned(result.start_walking_distance) ELSE 0
        start_points ==
            IF has_start_walking THEN <<RoutePoint(invalid_id, 0, 0, 6, TRUE)>> ELSE <<>>
        n == Len(result.node_path)
        cumulative_times(i) ==
            start_walking_time + CumulativeTime(result.arc_path, i - 1, max_speed_kmh)
        cumulative_distances(i) ==
            start_walking_dist + SumGeoDistance(SubSeq(result.arc_path, 1, i - 1))
        node_points ==
            IF n = 1
            THEN <<RoutePoint(result.node_path[1], start_walking_time,
                              start_walking_dist, 6, FALSE)>>
            ELSE [i \in 1..n |->
                    RoutePoint(result.node_path[i], cumulative_times(i),
                               cumulative_distances(i),
                               IF i = 1 THEN (IF has_start_walking THEN 6 ELSE 0)
                               ELSE EffectiveSpeed(result.arc_path[i - 1], max_speed_kmh),
                               FALSE)]
        end_points ==
            IF has_end_walking
            THEN <<RoutePoint(invalid_id,
                              node_points[n].time_ms
                                  + WalkingTimeMs(result.end_walking_distance),
                              node_points[n].distance_m
                                  + ToUnsigned(result.end_walking_distance),
                              6, TRUE)>>
            ELSE <<>>
    IN IF ~result.success \/ result.node_path = <<>> THEN <<>>
       ELSE start_points \o node_points \o end_points

(* ---- JsonBuilder ---- *)
\* the seconds of the JSON are kept as the milliseconds they are computed
\* from (time_ms / 1000.0)
\* buildRouteResponse as it would be without the path array
buildRouteResponse_NoPath(result, route_points) ==
    [success |-> result.success,
     travel_time_seconds |-> result.total_travel_time_ms,
     total_distance_meters |-> result.total_geo_distance_m]

buildRouteResponse(result, route_points) ==
    [success |-> result.success,
     travel_time_seconds |-> result.total_travel_time_ms,
     total_distance_meters |-> result.total_geo_distance_m,
     path |-> [i \in 1..Len(route_points) |->
                 [node_id |-> route_points[i].node_id,
                  cumulative_time_seconds |-> route_points[i].time_ms,
                  cumulative_distance_meters |-> route_points[i].distance_m,
                  max_speed_kmh |-> route_points[i].max_speed_kmh,
                  is_walking_segment |-> route_points[i].is_walking_segment]]]

buildLiteRouteResponse(result) ==
    [success |-> result.success,
     travel_time_seconds |-> result.total_travel_time_ms,
     total_distance_meters |-> result.total_geo_distance_m]

buildErrorResponse(error_message) ==
    [error |-> error_message, success |-> FALSE]

(* ---- request parameters ---- *)
\* A parameter is its text, kept as the kind of text it is and the number
\* the text starts with:
\*   "absent"      the parameter is not in the URL
\*   "ok"          a well-formed value ("52.09,5.12", "80", "1.5")
\*   "nocomma"     a coordinate without a comma ("52.09")
\*   "nonnumeric"  no number at the start ("invalid", "abc")
\*   "trailing"    a number followed by other text ("52.09abc,5.12", "80kmh")
RCoords == {0, 1, 601, 12401, 30000, 40000, 46001}

CoordParams ==
    { [kind |-> "ok", value |-> p] : p \in RCoords }
        \cup { [kind |-> k, value |-> 0] :
                 k \in {"absent", "nocomma", "nonnumeric", "trailing"} }

MaxSpeedParams ==
    { [kind |-> "ok", value |-> v] : v \in {0, 30, 80} }
        \cup { [kind |-> k, value |-> 30] : k \in {"absent", "nonnumeric", "trailing"} }

MultiplierParams ==
    { [kind |-> "ok", value |-> v] : v \in -1..MaxMultiplier }
        \cup { [kind |-> k, value |-> 1] : k \in {"absent", "nonnumeric"} }

IncludePathParams == {"absent", "0", "false", "1"}

\* ApiHandlers::parseCoordinate: std::stod reads the number a text starts
\* with and throws when there is none
parseCoordinate(param) ==
    [ok |-> param.kind \in {"ok", "trailing"}, pos |-> param.value]

\* ApiHandlers::parseCoordinates
parseCoordinates(req) ==
    parseCoordinate(req.from).ok /\ parseCoordinate(req.to).ok

\* the include_path parameter
ParseIncludePath(param) == param \notin {"0", "false"}

\* the max_speed parameter: std::stoul in a try block whose catch only logs
ParseMaxSpeed(param) ==
    IF param.kind \in {"ok", "trailing"} /\ param.value > 0
    THEN Some(param.value) ELSE nullopt

\* the speed_multiplier parameter (numerator over MultDen): std::stod in a
\* try block whose catch only logs; 1.0 when absent or not positive
ParseSpeedMultiplier(param) ==
    IF param.kind = "ok" /\ param.value > 0 THEN param.value ELSE MultDen

NoRouteRequest ==
    [from |-> [kind |-> "absent", value |-> 0], via |-> [kind |-> "absent", value |-> 0],
     to |-> [kind |-> "absent", value |-> 0], include_path |-> "absent",
     max_speed |-> [kind |-> "absent", value |-> 30],
     speed_multiplier |-> [kind |-> "absent", value |-> 1]]

RouteIdle ==
    /\ r_endpoint = "none"
    /\ r_req = NoRouteRequest
    /\ r_queries = <<>>
    /\ r_resp = [code |-> 0, body |-> <<>>]

\* ApiHandlers::handleShortestPath: the routing queries it runs and the
\* response it returns
ShortestPathQueries(req) ==
    IF ~parseCoordinates(req) THEN <<>>
    ELSE <<computeShortestPathFromCoordinates(parseCoordinate(req.from).pos,
                                              parseCoordinate(req.to).pos)>>

ShortestPathResponse(req) ==
    LET result == ShortestPathQueries(req)[1]
        include_path == ParseIncludePath(req.include_path)
        max_speed_kmh == ParseMaxSpeed(req.max_speed)
        modified_result ==
            IF max_speed_kmh.has_value
            THEN [result EXCEPT !.total_travel_time_ms =
                     recalculateTotalTravelTime(result, max_speed_kmh.value)]
            ELSE result
    IN IF ~parseCoordinates(req)
       THEN [code |-> 400,
             body |-> buildErrorResponse("Invalid or missing coordinates")]
       ELSE IF ~result.success
       THEN [code |-> 404,
             body |-> buildErrorResponse("No route found between coordinates")]
       ELSE IF include_path
       THEN [code |-> 200,
             body |-> buildRouteResponse(modified_result,
                         processPathIntoPoints(modified_result, max_speed_kmh))]
       ELSE [code |-> 200, body |-> buildLiteRouteResponse(modified_result)]

handleShortestPath ==
    /\ r_endpoint = "none"
    /\ \E from \in CoordParams, to \in CoordParams,
          include_path \in IncludePathParams, max_speed \in MaxSpeedParams :
        LET req == [NoRouteRequest EXCEPT !.from = from, !.to = to,
                       !.include_path = include_path, !.max_speed = max_speed]
        IN /\ r_endpoint' = "shortest_path"
           /\ r_req' = req
           /\ r_queries' = ShortestPathQueries(req)
           /\ r_resp' = ShortestPathResponse(req)
           /\ UNCHANGED notRoute

\* ApiHandlers::handleCompleteJobRoute: the routing queries it runs (the
\* second leg only after the first one succeeded)
CompleteJobRouteQueries(req) ==
    LET from == parseCoordinate(req.from)
        via == parseCoordinate(req.via)
        to == parseCoordinate(req.to)
        leg1_result == computeShortestPathFromCoordinates(from.pos, via.pos)
        leg2_result == computeShortestPathFromCoordinates(via.pos, to.pos)
    IN IF ~from.ok \/ ~via.ok \/ ~to.ok THEN <<>>
       ELSE IF ~leg1_result.success THEN <<leg1_result>>
       ELSE <<leg1_result, leg2_result>>

\* the two legs after the max_speed recalculation
LegWithMaxSpeed(leg_result, max_speed_kmh) ==
    IF max_speed_kmh.has_value
    THEN [leg_result EXCEPT !.total_travel_time_ms =
             recalculateTotalTravelTime(leg_result, max_speed_kmh.value)]
    ELSE leg_result

\* combined_result of handleCompleteJobRoute
CombinedResult(leg1_result, leg2_result, speed_multiplier) ==
    [success |-> TRUE,
     total_geo_distance_m |->
         leg1_result.total_geo_distance_m + leg2_result.total_geo_distance_m,
     total_travel_time_ms |->
         TimesMultiplier(leg1_result.total_travel_time_ms
                             + leg2_result.total_travel_time_ms, speed_multiplier)]

\* combined_points of handleCompleteJobRoute
CombinedPoints(leg1_points, leg2_points, speed_multiplier) ==
    LET leg1_final_time_ms ==
            IF leg1_points # <<>> THEN leg1_points[Len(leg1_points)].time_ms ELSE 0
        leg1_final_distance_m ==
            IF leg1_points # <<>> THEN leg1_points[Len(leg1_points)].distance_m ELSE 0
        leg1_final_time_ms_multiplied ==
            TimesMultiplier(leg1_final_time_ms, speed_multiplier)
    IN [i \in 1..Len(leg1_points) |->
           [leg1_points[i] EXCEPT !.time_ms = TimesMultiplier(@, speed_multiplier)]]
       \o [i \in 1..Len(leg2_points) |->
           [leg2_points[i] EXCEPT
               !.time_ms = leg1_final_time_ms_multiplied
                               + TimesMultiplier(@, speed_multiplier),
               !.distance_m = leg1_final_distance_m + @]]

CompleteJobRouteResponse(req) ==
    LET queries == CompleteJobRouteQueries(req)
        include_path == ParseIncludePath(req.include_path)
        max_speed_kmh == ParseMaxSpeed(req.max_speed)
        speed_multiplier == ParseSpeedMultiplier(req.speed_multiplier)
        leg1_result == LegWithMaxSpeed(queries[1], max_speed_kmh)
        leg2_result == LegWithMaxSpeed(queries[2], max_speed_kmh)
        combined_result == CombinedResult(leg1_result, leg2_result, speed_multiplier)
    IN IF queries = <<>>
       THEN [code |-> 400,
             body |-> buildErrorResponse("Invalid or missing coordinates")]
       ELSE IF ~queries[1].success
       THEN [code |-> 404,
             body |-> buildErrorResponse("No route found from start to pickup location")]
       ELSE IF ~queries[2].success
       THEN [code |-> 404,
             body |-> buildErrorResponse("No route found from pickup to delivery location")]
       ELSE IF include_path
       THEN [code |-> 200,
             body |-> buildRouteResponse(combined_result,
                         CombinedPoints(processPathIntoPoints(leg1_result, max_speed_kmh),
                                        processPathIntoPoints(leg2_result, max_speed_kmh),
                                        speed_multiplier))]
       ELSE [code |-> 200, body |-> buildLiteRouteResponse(combined_result)]

handleCompleteJobRoute ==
    /\ r_endpoint = "none"
    /\ \E from \in CoordParams, via \in CoordParams, to \in CoordParams,
          include_path \in IncludePathParams, max_speed \in MaxSpeedParams,
          speed_multiplier \in MultiplierParams :
        LET req == [from |-> from, via |-> via, to |-> to,
                    include_path |-> include_path, max_speed |-> max_speed,
                    speed_multiplier |-> speed_multiplier]
        IN /\ r_endpoint' = "complete_job_route"
           /\ r_req' = req
           /\ r_queries' = CompleteJobRouteQueries(req)
           /\ r_resp' = CompleteJobRouteResponse(req)
           /\ UNCHANGED notRoute

\* the response is sent and the server waits for the next request
RouteSent ==
    /\ r_endpoint # "none"
    /\ r_endpoint' = "none"
    /\ r_req' = NoRouteRequest
    /\ r_queries' = <<>>
    /\ r_resp' = [code |-> 0, body |-> <<>>]
    /\ UNCHANGED notRoute

RouteNext == handleShortestPath \/ handleCompleteJobRoute \/ RouteSent

(* ---- claims about the route handlers ---- *)
\* the graph nodes and the walking endpoints of a JSON path
GraphPoints(path) == { i \in 1..Len(path) : path[i].node_id # invalid_id }
WalkingPoints(path) == { i \in 1..Len(path) : path[i].is_walking_segment }

\* C11: a shortest_path query whose from and to coordinates are identical
\* and snap to a node returns success = true with travel_time_seconds = 0
\* and total_distance_meters = 0, and its path has exactly one graph node,
\* plus two walking endpoints when the coordinate is not the node's.
C11_IdenticalEndpointsGiveZeroRoute ==
    (/\ r_endpoint = "shortest_path"
     /\ r_req.from.kind = "ok"
     /\ r_req.to = r_req.from
     /\ findNearestNode(r_req.from.value) # invalid_id) =>
        /\ r_resp.code = 200
        /\ r_resp.body.success
        /\ r_resp.body.travel_time_seconds = 0
        /\ r_resp.body.total_distance_meters = 0
        /\ "path" \in DOMAIN r_resp.body =>
              /\ Cardinality(GraphPoints(r_resp.body.path)) = 1
              /\ Cardinality(WalkingPoints(r_resp.body.path)) =
                    IF haversineDistance(r_req.from.value,
                                         findNearestNode(r_req.from.value)) > 0
                    THEN 2 ELSE 0

\* the last point of a JSON path
LastPoint(path) == path[Len(path)]

\* C12: a successful complete_job_route request with speed_multiplier m > 0
\* reports the travel time (leg1_time + leg2_time) * m (to the millisecond)
\* and the distance leg1_dist + leg2_dist whatever m is, and the last point
\* of the returned path carries these combined totals.
C12_CombinedTotalsAndOffsets ==
    (/\ r_endpoint = "complete_job_route"
     /\ r_resp.code = 200
     /\ r_req.speed_multiplier.kind = "ok"
     /\ r_req.speed_multiplier.value > 0) =>
        LET m == r_req.speed_multiplier.value
            leg1 == LegWithMaxSpeed(r_queries[1], ParseMaxSpeed(r_req.max_speed))
            leg2 == LegWithMaxSpeed(r_queries[2], ParseMaxSpeed(r_req.max_speed))
        IN /\ r_resp.body.travel_time_seconds =
                 TimesMultiplier(leg1.total_travel_time_ms
                                     + leg2.total_travel_time_ms, m)
           /\ r_resp.body.total_distance_meters =
                 leg1.total_geo_distance_m + leg2.total_geo_distance_m
           /\ "path" \in DOMAIN r_resp.body =>
                 /\ LastPoint(r_resp.body.path).cumulative_time_seconds =
                       r_resp.body.travel_time_seconds
                 /\ LastPoint(r_resp.body.path).cumulative_distance_meters =
                       r_resp.body.total_distance_meters

\* no graph node lies within the snap radius of a coordinate
SnapMiss(pos) ==
    \A n \in RNodes : haversineDistance(pos, n) > SnapRadius * CoordPerM

\* the request is a shortest_path request whose coordinates parsed and for
\* which no route exists: a snap misses or the CH distance is infinite
NoRouteCase ==
    /\ r_endpoint = "shortest_path"
    /\ parseCoordinates(r_req)
    /\ \/ SnapMiss(r_req.from.value)
       \/ SnapMiss(r_req.to.value)
       \/ ch_geo_query(findNearestNode(r_req.from.value),
                       findNearestNode(r_req.to.value)).distance = inf_weight

\* C13: when an endpoint of a shortest-path query has no graph node within
\* the snap radius, or the CH distance between the snapped nodes is
\* infinite, the query result has success = false, the response is 404 and
\* its body reports no time and no distance.
C13_NoRouteGives404 ==
    NoRouteCase =>
        /\ Len(r_queries) = 1
        /\ ~r_queries[1].success
        /\ r_resp.code = 404
        /\ ~r_resp.body.success
        /\ DOMAIN r_resp.body = {"error", "success"}

\* both ends snap, to nodes no road joins, and the answer is 404
C13_Witness ==
    /\ NoRouteCase
    /\ ~SnapMiss(r_req.from.value)
    /\ ~SnapMiss(r_req.to.value)
    /\ r_resp.code = 404

\* the routing query of a shortest_path request succeeded
ShortestPathSucceeded ==
    /\ r_endpoint = "shortest_path"
    /\ r_queries # <<>>
    /\ r_queries[1].success

ParamsRead ==
    IF r_endpoint = "shortest_path"
    THEN {r_req.from, r_req.to, r_req.max_speed}
    ELSE {r_req.from, r_req.via, r_req.to, r_req.max_speed, r_req.speed_multiplier}

RequiredCoordinates ==
    IF r_endpoint = "shortest_path" THEN {r_req.from, r_req.to}
    ELSE {r_req.from, r_req.via, r_req.to}

\* C20: a routing request with a parameter that is present but malformed
\* (from, to, via, max_speed, speed_multiplier) or with a required
\* coordinate missing is answered with 400 and a body with success = false
\* and an error field, and no routing query is run for it.
C20_MalformedParametersGive400 ==
    (/\ r_endpoint # "none"
     /\ \/ \E p \in ParamsRead : p.kind \in {"nocomma", "nonnumeric", "trailing"}
        \/ \E p \in RequiredCoordinates : p.kind = "absent") =>
        /\ r_resp.code = 400
        /\ ~r_resp.body.success
        /\ "error" \in DOMAIN r_resp.body
        /\ r_queries = <<>>

(***************************************************************************)
(* trim_and_extract.cpp: the address CSV, its temporary file and the       *)
(* gzip written by compress_csv.  A file is absent or holds a number of    *)
(* CSV lines; compress_csv copies the temporary file line by line.         *)
(***************************************************************************)
MaxCsvRows == 5        \* address rows a pass writes at most

NoFile == [exists |-> FALSE, lines |-> 0, closed |-> TRUE]

CsvIdle ==
    /\ a_pc = "idle"
    /\ a_extract_addresses = FALSE
    /\ a_temp = NoFile
    /\ a_final = NoFile
    /\ a_read = 0
    /\ a_exit = -1

\* main() with its arguments parsed; a CSV.gz of an earlier run may exist
CsvInit ==
    /\ a_pc = "start"
    /\ a_extract_addresses \in BOOLEAN
    /\ a_final \in {NoFile, [exists |-> TRUE, lines |-> 1, closed |-> TRUE]}
    /\ a_temp = NoFile
    /\ a_read = 0
    /\ a_exit = -1

\* the catch block of main(): the temporary file is removed, exit code 1
CatchException ==
    /\ a_temp' = NoFile
    /\ a_pc' = "exit"
    /\ a_exit' = 1

\* main(): an existing CSV.gz is removed, the temporary CSV is opened and
\* the header written; failing to open it returns 1
CsvOpenTemp ==
    /\ a_pc = "start"
    /\ a_final' = IF a_extract_addresses THEN NoFile ELSE a_final
    /\ \/ /\ a_extract_addresses
          /\ a_temp' = [exists |-> TRUE, lines |-> 1, closed |-> FALSE]
          /\ a_pc' = "pass1"
          /\ a_exit' = a_exit
       \/ /\ a_extract_addresses
          /\ a_temp' = NoFile
          /\ a_pc' = "exit"
          /\ a_exit' = 1
       \/ /\ ~a_extract_addresses
          /\ a_temp' = NoFile
          /\ a_pc' = "pass1"
          /\ a_exit' = a_exit
    /\ UNCHANGED <<a_extract_addresses, a_read, notCsv>>

\* Pass1Handler writes one address row to the temporary CSV
CsvPass1Row ==
    /\ a_pc = "pass1"
    /\ a_extract_addresses
    /\ a_temp.lines < 1 + MaxCsvRows
    /\ a_temp' = [a_temp EXCEPT !.lines = @ + 1]
    /\ UNCHANGED <<a_pc, a_extract_addresses, a_final, a_read, a_exit, notCsv>>

\* pass 1 ends, or an exception leaves it
CsvPass1End ==
    /\ a_pc = "pass1"
    /\ \/ a_pc' = "pass2" /\ UNCHANGED <<a_temp, a_exit>>
       \/ CatchException
    /\ UNCHANGED <<a_extract_addresses, a_final, a_read, notCsv>>

\* Pass2Handler writes one address row to the temporary CSV
CsvPass2Row ==
    /\ a_pc = "pass2"
    /\ a_extract_addresses
    /\ a_temp.lines < 1 + 2 * MaxCsvRows
    /\ a_temp' = [a_temp EXCEPT !.lines = @ + 1]
    /\ UNCHANGED <<a_pc, a_extract_addresses, a_final, a_read, a_exit, notCsv>>

\* pass 2 ends, or an exception leaves it
CsvPass2End ==
    /\ a_pc = "pass2"
    /\ \/ a_pc' = "compress" /\ UNCHANGED <<a_temp, a_exit>>
       \/ CatchException
    /\ UNCHANGED <<a_extract_addresses, a_final, a_read, notCsv>>

\* csv_file.close() and the head of compress_csv: the input stream and the
\* gzFile are opened; gzopen creates the file at the final path
CsvCompressOpen ==
    /\ a_pc = "compress"
    /\ IF ~a_extract_addresses
       THEN /\ a_pc' = "exit"
            /\ a_exit' = 0
            /\ UNCHANGED <<a_temp, a_final>>
       ELSE \/ /\ a_temp' = [a_temp EXCEPT !.closed = TRUE]
               /\ a_final' = [exists |-> TRUE, lines |-> 0, closed |-> FALSE]
               /\ a_pc' = "gzwrite"
               /\ a_exit' = a_exit
            \/ /\ CatchException
               /\ a_final' = a_final
    /\ UNCHANGED <<a_extract_addresses, a_read, notCsv>>

\* compress_csv: one turn of the read / gzwrite loop; gzwrite returning 0
\* closes the gzFile and throws
CsvGzWrite ==
    /\ a_pc = "gzwrite"
    /\ a_read < a_temp.lines
    /\ \/ /\ a_read' = a_read + 1
          /\ a_final' = [a_final EXCEPT !.lines = @ + 1]
          /\ UNCHANGED <<a_temp, a_pc, a_exit>>
       \/ /\ a_final' = [a_final EXCEPT !.closed = TRUE]
          /\ CatchException
          /\ a_read' = a_read
    /\ UNCHANGED <<a_extract_addresses, notCsv>>

\* compress_csv: gzclose at the end of the input (its result is not
\* looked at), then main() removes the temporary CSV and returns 0
CsvGzClose ==
    /\ a_pc = "gzwrite"
    /\ a_read = a_temp.lines
    /\ a_final' = [a_final EXCEPT !.closed = TRUE]
    /\ a_temp' = NoFile
    /\ a_pc' = "exit"
    /\ a_exit' = 0
    /\ UNCHANGED <<a_extract_addresses, a_read, notCsv>>

CsvNext ==
    \/ CsvOpenTemp
    \/ CsvPass1Row
    \/ CsvPass1End
    \/ CsvPass2Row
    \/ CsvPass2End
    \/ CsvCompressOpen
    \/ CsvGzWrite
    \/ CsvGzClose

\* C14: when the extractor exits after a failure (of a pass or of the
\* compression) neither the temporary CSV nor the final CSV.gz exists, and
\* when it exits after success the temporary CSV no longer exists and the
\* CSV.gz holds every line of it.
C14_NoFilesLeftAfterFailure ==
    (a_pc = "exit" /\ a_extract_addresses) =>
        /\ ~a_temp.exists
        /\ a_exit = 1 => ~a_final.exists
        /\ a_exit = 0 => a_final.exists /\ a_final.closed

(***************************************************************************)
(* routing_server: RoutingEngine::RoutingEngine, the contraction hierarchy *)
(* at startup.  The CH file is absent, valid or damaged; the server may be *)
(* started again on the files the previous start left.                     *)
(***************************************************************************)
MaxStarts == 6         \* starts of the server on the same CH path

EngineIdle ==
    /\ e_pc = "idle"
    /\ ch_file = "absent"
    /\ ch_dir = FALSE
    /\ ch_geo_ = "none"
    /\ e_events = <<>>
    /\ e_starts = 0

\* the constructor has loaded the graph and reached the CH block
EngineInit ==
    /\ e_pc = "check"
    /\ ch_file \in {"absent", "valid", "damaged"}
    /\ ch_dir \in BOOLEAN
    /\ ch_file # "absent" => ch_dir
    /\ ch_geo_ = "none"
    /\ e_events = <<>>
    /\ e_starts = 1

\* where the constructor goes on after the save, which ended well or threw
AfterSave_FailStartup(saved) == IF saved THEN "posmap" ELSE "failed"

\* the catch block around the save only logs
AfterSave(saved) == "posmap"

\* std::filesystem::exists(ch_file_path)
EngineCheckFile ==
    /\ e_pc = "check"
    /\ e_pc' = IF ch_file # "absent" THEN "load" ELSE "build"
    /\ e_events' = Append(e_events, IF ch_file # "absent" THEN "found" ELSE "missing")
    /\ UNCHANGED <<ch_file, ch_dir, ch_geo_, e_starts, notEngine>>

\* ContractionHierarchy::load_file: throws on a file it cannot read, and
\* the outer catch rethrows
EngineLoad ==
    /\ e_pc = "load"
    /\ e_events' = Append(e_events, "load")
    /\ IF ch_file = "valid"
       THEN ch_geo_' = "loaded" /\ e_pc' = "posmap"
       ELSE ch_geo_' = ch_geo_ /\ e_pc' = "failed"
    /\ UNCHANGED <<ch_file, ch_dir, e_starts, notEngine>>

\* ContractionHierarchy::build; an exception (std::bad_alloc) is rethrown
EngineBuild ==
    /\ e_pc = "build"
    /\ e_events' = Append(e_events, "build")
    /\ \/ ch_geo_' = "built" /\ e_pc' = "save"
       \/ ch_geo_' = ch_geo_ /\ e_pc' = "failed"
    /\ UNCHANGED <<ch_file, ch_dir, e_starts, notEngine>>

\* the save's try block, first half: create_directories of the parent
\* path; an exception ends the save
EngineCreateDirectories ==
    /\ e_pc = "save"
    /\ \/ /\ ch_dir' = TRUE
          /\ e_pc' = "save_file"
          /\ e_events' = e_events
       \/ /\ ~ch_dir
          /\ ch_dir' = ch_dir
          /\ e_events' = Append(e_events, "save failed")
          /\ e_pc' = AfterSave(FALSE)
    /\ UNCHANGED <<ch_file, ch_geo_, e_starts, notEngine>>

\* the save's try block, second half: save_file writes the file, or an
\* exception leaves no file or a part of it
EngineSave ==
    /\ e_pc = "save_file"
    /\ \/ /\ ch_file' = "valid"
          /\ e_events' = Append(e_events, "saved")
          /\ e_pc' = AfterSave(TRUE)
       \/ /\ ch_file' \in {"absent", "damaged"}
          /\ e_events' = Append(e_events, "save failed")
          /\ e_pc' = AfterSave(FALSE)
    /\ UNCHANGED <<ch_dir, ch_geo_, e_starts, notEngine>>

\* pos_to_node_ is made and the constructor returns
EnginePosMap ==
    /\ e_pc = "posmap"
    /\ e_pc' = "ready"
    /\ UNCHANGED <<ch_file, ch_dir, ch_geo_, e_events, e_starts, notEngine>>

\* the process ends and the server is started again on the same path
EngineRestart ==
    /\ e_pc \in {"ready", "failed"}
    /\ e_starts < MaxStarts
    /\ e_pc' = "check"
    /\ ch_geo_' = "none"
    /\ e_events' = <<>>
    /\ e_starts' = e_starts + 1
    /\ UNCHANGED <<ch_file, ch_dir, notEngine>>

EngineNext ==
    \/ EngineCheckFile
    \/ EngineLoad
    \/ EngineBuild
    \/ EngineCreateDirectories
    \/ EngineSave
    \/ EnginePosMap
    \/ EngineRestart

Events == { e_events[i] : i \in 1..Len(e_events) }

\* C18: at startup a CH file that exists is loaded, with no build and no
\* save; otherwise the CH is built and a save is attempted only after the
\* build, and a save that fails leaves the engine initialised with the CH
\* it built.
C18_LoadOrBuildThenSave ==
    /\ "found" \in Events =>
          /\ Events \cap {"build", "saved", "save failed"} = {}
          /\ e_pc \in {"posmap", "ready"} => ch_geo_ = "loaded" /\ "load" \in Events
    /\ "missing" \in Events =>
          /\ "load" \notin Events
          /\ \A i \in 1..Len(e_events) :
                e_events[i] \in {"saved", "save failed"} =>
                    /\ ch_geo_ = "built"
                    /\ \E j \in 1..(i - 1) : e_events[j] = "build"
          /\ e_pc \in {"save", "save_file", "posmap", "ready"} => ch_geo_ = "built"
          /\ "save failed" \in Events => e_pc \in {"posmap", "ready"}

\* the save failed and the engine is up with the CH it built
C18_Witness ==
    /\ e_pc = "ready"
    /\ e_events = <<"missing", "build", "save failed">>
    /\ ch_geo_ = "built"

(* ---- claims about max_speed and arcs of speed 0 ---- *)
\* the request without its max_speed parameter
WithoutMaxSpeed(req) == [req EXCEPT !.max_speed = NoRouteRequest.max_speed]

\* C23: supplying max_speed to a successful query changes only the per-arc
\* driving times (each recomputed with min(arc_speed, max_speed)):
\* total_distance_meters is unchanged and the walking-leg contribution to
\* the total travel time is the same as without max_speed, for every
\* successful result including the one where both endpoints snap to the
\* same node.
C23_MaxSpeedKeepsDistanceAndWalking ==
    (ShortestPathSucceeded /\ ParseMaxSpeed(r_req.max_speed).has_value) =>
        LET base == ShortestPathResponse(WithoutMaxSpeed(r_req)).body
            arcs == r_queries[1].arc_path
            max_speed_kmh == ParseMaxSpeed(r_req.max_speed).value
        IN /\ r_resp.body.total_distance_meters = base.total_distance_meters
           /\ r_resp.body.travel_time_seconds - SumArcTimes(arcs, max_speed_kmh)
                 = base.travel_time_seconds - SumArcTimes(arcs, 300)

\* the time an arc is to contribute: at its effective speed, or at the
\* walking speed of 6 km/h (length / 1.67 m/s) when that speed is 0
ArcTimeOrWalking(arc, max_speed_kmh) ==
    IF EffectiveSpeed(arc, max_speed_kmh) = 0
    THEN WalkingTimeMs(geo_distance(arc) * CoordPerM)
    ELSE ArcTimeMs(arc, EffectiveSpeed(arc, max_speed_kmh))

RECURSIVE SumArcTimeOrWalking(_, _)
SumArcTimeOrWalking(arc_path, max_speed_kmh) ==
    IF arc_path = <<>> THEN 0
    ELSE ArcTimeOrWalking(Head(arc_path), max_speed_kmh)
         + SumArcTimeOrWalking(Tail(arc_path), max_speed_kmh)

\* the successful shortest_path request has an arc of effective speed 0
\* on its path
HasZeroSpeedArc ==
    /\ ShortestPathSucceeded
    /\ \E k \in 1..Len(r_queries[1].arc_path) :
          EffectiveSpeed(r_queries[1].arc_path[k], ParseMaxSpeed(r_req.max_speed)) = 0

NumParams(values) ==
    { [kind |-> "ok", value |-> v] : v \in values }
        \cup { [kind |-> k, value |-> 0] : k \in {"absent", "nonnumeric"} }

NoAnnulusRequest ==
    [center |-> [kind |-> "absent", value |-> 0],
     min_distance |-> [kind |-> "absent", value |-> 0],
     max_distance |-> [kind |-> "absent", value |-> 0],
     seed |-> [kind |-> "absent", value |-> 0]]

AnnulusHttpIdle ==
    /\ ua_req = NoAnnulusRequest
    /\ ua_resp = [code |-> 0, body |-> <<>>]

\* std::stod / std::stof / std::stoul: throw for "" and for a text that
\* does not start with a number
Parses(param) == param.kind = "ok"

\* req.url_params.get("seed") ? ... : "42"
SeedText(param) ==
    IF param.kind = "absent" THEN [kind |-> "ok", value |-> 42] ELSE param

\* Address::toJson
AddressJson(address) == [id |-> address.id, pos |-> address.pos]

\* ApiHandlers::handleUniformRandomAddressInAnnulus: the response
AnnulusResponse(req) ==
    LET address == getUniformRandomAddressInAnnulus(
                       req.center.value, req.min_distance.value,
                       req.max_distance.value, SeedText(req.seed).value)
    IN IF Len(addresses_) = 0
       THEN [code |-> 404,
             body |-> buildErrorResponse("No addresses loaded")]
       ELSE IF ~(/\ Parses(req.center) /\ Parses(req.min_distance)
                 /\ Parses(req.max_distance) /\ Parses(SeedText(req.seed)))
       THEN [code |-> 400,
             body |-> buildErrorResponse("Invalid parameter format")]
       ELSE IF \/ req.center.kind = "absent" \/ req.min_distance.kind = "absent"
               \/ req.max_distance.kind = "absent"
       THEN [code |-> 400,
             body |-> buildErrorResponse("Missing required parameters")]
       ELSE IF address = NoAddress
       THEN [code |-> 404,
             body |-> buildErrorResponse("No address found in the specified annulus")]
       ELSE [code |-> 200, body |-> AddressJson(address)]

handleUniformRandomAddressInAnnulus ==
    /\ ua_resp.code = 0
    /\ \E center \in NumParams(ACenters), min_distance \in NumParams(AMinKm),
          max_distance \in NumParams(AMaxKm),
          seed \in NumParams(0..MaxSampleSeed) :
        LET req == [center |-> center, min_distance |-> min_distance,
                    max_distance |-> max_distance, seed |-> seed]
        IN /\ ua_req' = req
           /\ ua_resp' = AnnulusResponse(req)
    /\ UNCHANGED notAnnulusHttp

AnnulusSent ==
    /\ ua_resp.code # 0
    /\ ua_req' = NoAnnulusRequest
    /\ ua_resp' = [code |-> 0, body |-> <<>>]
    /\ UNCHANGED notAnnulusHttp

AnnulusHttpNext == handleUniformRandomAddressInAnnulus \/ AnnulusSent

(* ---- claims about handleUniformRandomAddressInAnnulus ---- *)
AnnulusHandled == ua_resp.code # 0

AnnulusParamsRead ==
    /\ Parses(ua_req.center) /\ Parses(ua_req.min_distance)
    /\ Parses(ua_req.max_distance) /\ Parses(SeedText(ua_req.seed))

\* the validation min_distance >= 0 and max_distance > min_distance
AnnulusParamsValid ==
    /\ ua_req.min_distance.value >= 0
    /\ ua_req.max_distance.value > ua_req.min_distance.value

\* C21: a uniformRandomAddressInAnnulus request that violates the
\* validation min_distance >= 0 and max_distance > min_distance is rejected
\* with HTTP 400; HTTP 404 is returned only when the parameters are valid
\* and no address lies in the annulus, or when no addresses are loaded.
C21_InvalidAnnulusGives400 ==
    AnnulusHandled =>
        /\ (Len(addresses_) > 0 /\ AnnulusParamsRead /\ ~AnnulusParamsValid)
              => ua_resp.code = 400
        /\ ua_resp.code = 404
              => \/ Len(addresses_) = 0
                 \/ AnnulusParamsRead /\ AnnulusParamsValid

(***************************************************************************)
(* routing_server/src/RoutingEngine.cpp: loadAddressesFromCSV              *)
(*                                                                         *)
(* A line of the file is the kind of text it is, the id in its first       *)
(* column and the position its lon/lat columns give:                       *)
(*   "header"  starts with a character that is not a digit                 *)
(*   "empty"   the empty line                                              *)
(*   "short"   starts with a digit, fewer than three fields                *)
(*   "badlon"  three fields, the second is not a number                    *)
(*   "badlat"  three fields, the third is not a number                     *)
(*   "ok"      id, lon, lat and possibly street, housenumber, ...          *)
(***************************************************************************)
MaxLines == 3      \* at most this many lines in an address file
MaxLoads == 2      \* loadAddressesFromCSV is called at most this often

CsvLines ==
    { [kind |-> "ok", id |-> id, pos |-> pos] : id \in {3, 7}, pos \in {0, 999} }
        \cup { [kind |-> k, id |-> 0, pos |-> 0] :
                 k \in {"header", "empty", "short", "badlon", "badlat"} }

LoadIdle ==
    /\ csv_file = <<>>
    /\ l_pc = "idle"
    /\ l_pos = 0
    /\ lat_vec = <<>>
    /\ l_loads = 0

\* the engine before its first call of loadAddressesFromCSV
LoadInit ==
    /\ addresses_ = <<>>
    /\ addr_index_ = NoAddrIndex
    /\ s_query = <<>>
    /\ s_pages = <<>>
    /\ u_query = <<>>
    /\ u_result = <<>>
    /\ LoadIdle

\* processAddressLine: the addresses and the coordinate vector after the line
processAddressLine_IdFromFile(line, addresses, lats) ==
    IF line.kind # "ok" THEN [addresses |-> addresses, lat_vec |-> lats]
    ELSE [addresses |-> Append(addresses, Address(line.id, line.pos)),
          lat_vec |-> Append(lats, ToFloat(line.pos))]

processAddressLine(line, addresses, lats) ==
    IF line.kind = "empty" THEN [addresses |-> addresses, lat_vec |-> lats]
    ELSE IF line.kind = "short" THEN [addresses |-> addresses, lat_vec |-> lats]
    ELSE IF line.kind \in {"badlon", "badlat", "header"}
    THEN [addresses |-> addresses, lat_vec |-> lats]
    ELSE [addresses |-> Append(addresses, Address(Len(addresses), line.pos)),
          lat_vec |-> Append(lats, ToFloat(line.pos))]

\* loadAddressesFromCSV: addresses_.clear(), open the file
LoadOpen ==
    /\ l_pc \in {"idle", "done"}
    /\ l_loads < MaxLoads
    /\ \E file \in SeqsUpTo(CsvLines, MaxLines) : csv_file' = file
    /\ l_pc' = "first"
    /\ l_pos' = 0
    /\ addresses_' = <<>>
    /\ lat_vec' = <<>>
    /\ l_loads' = l_loads + 1
    /\ UNCHANGED addr_index_
    /\ UNCHANGED notLoad

\* the first line: skipped when it starts with a character that is not a
\* digit, processed otherwise
LoadFirstLine ==
    /\ l_pc = "first"
    /\ IF csv_file = <<>>
       THEN UNCHANGED <<addresses_, lat_vec, l_pos>>
       ELSE /\ l_pos' = 1
            /\ IF csv_file[1].kind = "header"
               THEN UNCHANGED <<addresses_, lat_vec>>
               ELSE LET r == processAddressLine(csv_file[1], addresses_, lat_vec)
                    IN /\ addresses_' = r.addresses
                       /\ lat_vec' = r.lat_vec
    /\ l_pc' = "rest"
    /\ UNCHANGED <<csv_file, addr_index_, l_loads>>
    /\ UNCHANGED notLoad

\* while (std::getline(in_file, line)) processAddressLine(...)
LoadLine ==
    /\ l_pc = "rest"
    /\ l_pos < Len(csv_file)
    /\ LET r == processAddressLine(csv_file[l_pos + 1], addresses_, lat_vec)
       IN /\ addresses_' = r.addresses
          /\ lat_vec' = r.lat_vec
    /\ l_pos' = l_pos + 1
    /\ UNCHANGED <<csv_file, l_pc, addr_index_, l_loads>>
    /\ UNCHANGED notLoad

\* the spatial index is built if there are addresses; the index of an
\* earlier load stays otherwise.  The file is closed on return.
LoadBuildIndex ==
    /\ l_pc = "rest"
    /\ l_pos >= Len(csv_file)
    /\ addr_index_' = IF addresses_ # <<>>
                      THEN [present |-> TRUE, pos |-> lat_vec]
                      ELSE addr_index_
    /\ l_pc' = "done"
    /\ csv_file' = <<>>
    /\ UNCHANGED <<l_pos, addresses_, lat_vec, l_loads>>
    /\ UNCHANGED notLoad

LoadNext == LoadOpen \/ LoadFirstLine \/ LoadLine \/ LoadBuildIndex

(* ---- claims about loadAddressesFromCSV ---- *)
\* C22: after loading any address file (with a header, empty or malformed
\* lines that are skipped) the address at array index i has id i, and entry
\* i of the coordinates handed to the spatial index is the (single-
\* precision) coordinate of that same address, so that an index hit i
\* denotes addresses[i].
C22_DenseIdsAlignedWithIndex ==
    /\ Len(lat_vec) = Len(addresses_)
    /\ \A i \in 1..Len(addresses_) :
          /\ addresses_[i].id = i - 1
          /\ lat_vec[i] = ToFloat(addresses_[i].pos)
    /\ (l_pc = "done" /\ addresses_ # <<>>) =>
          /\ addr_index_.present
          /\ addr_index_.pos = lat_vec

\* a second file has been loaded in which a line was skipped between or
\* around two addresses at different positions
C22_Witness ==
    /\ l_pc = "done"
    /\ l_loads = 2
    /\ l_pos = 3
    /\ Len(addresses_) = 2
    /\ addresses_[1].pos # addresses_[2].pos
    /\ addr_index_.pos = lat_vec

(***************************************************************************)
(* Specifications                                                          *)
(***************************************************************************)
LateIdle == AnnulusHttpIdle /\ LoadIdle /\ WriterIdle

ExtIdle == RouteIdle /\ MatchIdle /\ CsvIdle /\ EngineIdle /\ LateIdle

CoreIdle ==
    /\ TrimIdle /\ ConnectIdle /\ IndexIdle /\ PlacesIdle /\ AddressIdle
    /\ HttpIdle

InitTrim == TrimInit /\ ConnectIdle /\ IndexIdle /\ PlacesIdle /\ AddressIdle /\ HttpIdle /\ ExtIdle

SpecTrim == InitTrim /\ [][TrimNext]_vars

InitIndex == TrimIdle /\ ConnectIdle /\ IndexIdle /\ PlacesIdle /\ AddressIdle /\ HttpIdle /\ ExtIdle

InitConnect ==
    /\ TrimIdle /\ ConnectInit /\ q_query = <<>> /\ q_result = <<>>
    /\ PlacesIdle /\ AddressIdle /\ HttpIdle /\ ExtIdle

SpecConnect == InitConnect /\ [][ConnectNext]_vars

SpecIndex == InitIndex /\ [][IndexNext]_vars

InitPlaces == TrimIdle /\ ConnectIdle /\ IndexIdle /\ PlacesInit /\ AddressIdle /\ HttpIdle /\ ExtIdle

SpecPlaces == InitPlaces /\ [][PlacesNext]_vars

InitSample == TrimIdle /\ ConnectIdle /\ IndexIdle /\ PlacesIdle /\ SampleInit /\ HttpIdle /\ ExtIdle

SpecSample == InitSample /\ [][SampleNext]_vars

InitAnnulus == TrimIdle /\ ConnectIdle /\ IndexIdle /\ PlacesIdle /\ AnnulusInit /\ HttpIdle /\ ExtIdle

SpecAnnulus == InitAnnulus /\ [][AnnulusNext]_vars

InitHttp ==
    /\ TrimIdle /\ ConnectIdle /\ IndexIdle /\ PlacesIdle /\ AddressIdle
    /\ HttpInit /\ ExtIdle

SpecHttp == InitHttp /\ [][HttpNext]_vars

InitRoute == CoreIdle /\ RouteIdle /\ MatchIdle /\ CsvIdle /\ EngineIdle /\ LateIdle

SpecRoute == InitRoute /\ [][RouteNext]_vars

InitMatch == CoreIdle /\ RouteIdle /\ MatchIdle /\ CsvIdle /\ EngineIdle /\ LateIdle

SpecMatch == InitMatch /\ [][MatchNext]_vars

InitCsv == CoreIdle /\ RouteIdle /\ MatchIdle /\ CsvInit /\ EngineIdle /\ LateIdle

SpecCsv == InitCsv /\ [][CsvNext]_vars

InitEngine == CoreIdle /\ RouteIdle /\ MatchIdle /\ CsvIdle /\ EngineInit /\ LateIdle

SpecEngine == InitEngine /\ [][EngineNext]_vars

InitAnnulusHttp ==
    /\ TrimIdle /\ ConnectIdle /\ IndexIdle /\ PlacesIdle /\ AnnulusInit
    /\ HttpIdle /\ ExtIdle

SpecAnnulusHttp == InitAnnulusHttp /\ [][AnnulusHttpNext]_vars

InitLoad ==
    /\ TrimIdle /\ ConnectIdle /\ IndexIdle /\ PlacesIdle /\ LoadInit
    /\ HttpIdle /\ RouteIdle /\ MatchIdle /\ CsvIdle /\ EngineIdle
    /\ AnnulusHttpIdle /\ WriterIdle

SpecLoad == InitLoad /\ [][LoadNext]_vars

InitBridges ==
    /\ TrimIdle /\ BridgesInit /\ q_query = <<>> /\ q_result = <<>>
    /\ PlacesIdle /\ AddressIdle /\ HttpIdle /\ ExtIdle

SpecBridges == InitBridges /\ [][ConnectNext]_vars

====
